---------------------------- MODULE Spec2Model ----------------------------
(***************************************************************************)
(* SkyMemo: weather classification (weather_handler.py), mood resolution   *)
(* and prompt generation (prompt_generator.py), the entry store and its    *)
(* statistics (journal_manager.py), the weather-mood correlation grid      *)
(* (visualizer.py) and the New Entry page (app.py), over the lookup tables *)
(* of config.py.                                                           *)
(*                                                                         *)
(* Text that the code inspects character by character (lower(), `in`,      *)
(* replace(), sorted()) is a sequence of one-character strings; names that *)
(* the code only compares for equality are TLA+ strings, and Chars gives   *)
(* the characters of each such name.                                       *)
(***************************************************************************)
EXTENDS Integers, Sequences, FiniteSets, TLC

VARIABLES
  manual_args,     \* arguments of the get_weather_manual call
  first_classified,\* get_weather_manual's local classified_condition after line 80
  weather_data,    \* value returned by get_weather_manual
  api_key,         \* WeatherHandler.api_key
  cache,           \* content of the weather cache file: city -> sample
  fetched,         \* history: city -> sample of its latest successful fetch
  api_call,        \* the last get_weather_api call and its value
  description,     \* argument of the classify_weather_condition call
  classified,      \* value returned by classify_weather_condition
  sample,          \* weather_data argument of the determine_moods call
  moods,           \* value returned by determine_moods
  gen_args,        \* arguments of the generate_prompts call
  pc,              \* position of the generate_prompts call
  primary_mood,    \* generate_prompts' local primary_mood
  all_moods,       \* generate_prompts' local all_moods
  mood_idx,        \* index in all_moods of the walk's next mood
  prompts,         \* generate_prompts' local prompts, returned at "done"
  used_templates,  \* generate_prompts' local used_templates
  entries,         \* content of the entries file, newest entry first
  now,             \* the clock datetime.now() reads, in ticks
  ret,             \* the last JournalManager, Visualizer or Save call
  current_weather, \* st.session_state.current_weather
  current_prompts, \* st.session_state.current_prompts
  selected_prompt, \* st.session_state.selected_prompt
  generated_from,  \* history: the sample current_prompts was generated from
  selected_from    \* history: the sample selected_prompt was generated from

apiVars == <<api_key, cache, fetched, api_call>>

weatherVars == <<manual_args, first_classified, weather_data, apiVars>>

conditionVars == <<description, classified>>

moodVars == <<sample, moods>>

genVars ==
  <<gen_args, pc, primary_mood, all_moods, mood_idx, prompts, used_templates>>

journalVars == <<entries, now, ret>>

pageVars ==
  <<current_weather, current_prompts, selected_prompt, generated_from,
    selected_from>>

vars ==
  <<weatherVars, conditionVars, moodVars, genVars, journalVars, pageVars>>

(***************************************************************************)
(* Python values                                                           *)
(***************************************************************************)
\* Python's None, for variables that otherwise hold a record.
None == [none |-> TRUE]

\* Python's None where the value is otherwise a string.
NoneStr == "<None>"

\* A string-valued variable before the call that sets it.
Unset == "<unset>"

(***************************************************************************)
(* Text                                                                    *)
(***************************************************************************)
\* The characters the model's texts use, in code point order.
Alphabet ==
  <<" ", "-",
    "0", "1", "2", "3", "4", "5", "6", "7", "8", "9",
    "A", "B", "C", "D", "E", "F", "G", "H", "I", "J", "K", "L", "M",
    "N", "O", "P", "Q", "R", "S", "T", "U", "V", "W", "X", "Y", "Z",
    "_",
    "a", "b", "c", "d", "e", "f", "g", "h", "i", "j", "k", "l", "m",
    "n", "o", "p", "q", "r", "s", "t", "u", "v", "w", "x", "y", "z">>

\* Rank of a character in code point order.
Ord(c) == CHOOSE i \in DOMAIN Alphabet : Alphabet[i] = c

\* str.lower(): "A".."Z" (ranks 13..38) map to "a".."z" (ranks 40..65).
Lower(s) ==
  [i \in DOMAIN s |->
     IF Ord(s[i]) \in 13..38 THEN Alphabet[Ord(s[i]) + 27] ELSE s[i]]

\* `kw in s` on str: kw occurs as a contiguous substring of s.
Contains(kw, s) ==
  \E i \in 0..(Len(s) - Len(kw)) : SubSeq(s, i + 1, i + Len(kw)) = kw

\* str.replace(old, new) for one-character old and new.
Replace(s, old, new) ==
  [i \in DOMAIN s |-> IF s[i] = old THEN new ELSE s[i]]

\* The string a sequence of characters spells.
RECURSIVE Join(_)
Join(s) == IF Len(s) = 0 THEN "" ELSE Head(s) \o Join(Tail(s))

(***************************************************************************)
(* config.py                                                               *)
(***************************************************************************)
\* The characters of every name and word the model handles as text.
Chars ==
     ("sunny" :> <<"s", "u", "n", "n", "y">>) @@
     ("sun" :> <<"s", "u", "n">>) @@
     ("clear" :> <<"c", "l", "e", "a", "r">>) @@
     ("bright" :> <<"b", "r", "i", "g", "h", "t">>) @@
     ("partly_cloudy" :> <<"p", "a", "r", "t", "l", "y", "_", "c", "l", "o", "u", "d", "y">>) @@
     ("partly cloudy" :> <<"p", "a", "r", "t", "l", "y", " ", "c", "l", "o", "u", "d", "y">>) @@
     ("partly sunny" :> <<"p", "a", "r", "t", "l", "y", " ", "s", "u", "n", "n", "y">>) @@
     ("scattered clouds" :> <<"s", "c", "a", "t", "t", "e", "r", "e", "d", " ", "c", "l", "o", "u", "d", "s">>) @@
     ("cloudy" :> <<"c", "l", "o", "u", "d", "y">>) @@
     ("overcast" :> <<"o", "v", "e", "r", "c", "a", "s", "t">>) @@
     ("grey" :> <<"g", "r", "e", "y">>) @@
     ("gray" :> <<"g", "r", "a", "y">>) @@
     ("rainy" :> <<"r", "a", "i", "n", "y">>) @@
     ("rain" :> <<"r", "a", "i", "n">>) @@
     ("drizzle" :> <<"d", "r", "i", "z", "z", "l", "e">>) @@
     ("shower" :> <<"s", "h", "o", "w", "e", "r">>) @@
     ("precipitation" :> <<"p", "r", "e", "c", "i", "p", "i", "t", "a", "t", "i", "o", "n">>) @@
     ("stormy" :> <<"s", "t", "o", "r", "m", "y">>) @@
     ("storm" :> <<"s", "t", "o", "r", "m">>) @@
     ("thunder" :> <<"t", "h", "u", "n", "d", "e", "r">>) @@
     ("lightning" :> <<"l", "i", "g", "h", "t", "n", "i", "n", "g">>) @@
     ("severe" :> <<"s", "e", "v", "e", "r", "e">>) @@
     ("snowy" :> <<"s", "n", "o", "w", "y">>) @@
     ("snow" :> <<"s", "n", "o", "w">>) @@
     ("flurries" :> <<"f", "l", "u", "r", "r", "i", "e", "s">>) @@
     ("blizzard" :> <<"b", "l", "i", "z", "z", "a", "r", "d">>) @@
     ("foggy" :> <<"f", "o", "g", "g", "y">>) @@
     ("fog" :> <<"f", "o", "g">>) @@
     ("mist" :> <<"m", "i", "s", "t">>) @@
     ("misty" :> <<"m", "i", "s", "t", "y">>) @@
     ("haze" :> <<"h", "a", "z", "e">>) @@
     ("windy" :> <<"w", "i", "n", "d", "y">>) @@
     ("wind" :> <<"w", "i", "n", "d">>) @@
     ("breezy" :> <<"b", "r", "e", "e", "z", "y">>) @@
     ("gusty" :> <<"g", "u", "s", "t", "y">>) @@
     ("energetic" :> <<"e", "n", "e", "r", "g", "e", "t", "i", "c">>) @@
     ("hopeful" :> <<"h", "o", "p", "e", "f", "u", "l">>) @@
     ("calm" :> <<"c", "a", "l", "m">>) @@
     ("reflective" :> <<"r", "e", "f", "l", "e", "c", "t", "i", "v", "e">>) @@
     ("balanced" :> <<"b", "a", "l", "a", "n", "c", "e", "d">>) @@
     ("introspective" :> <<"i", "n", "t", "r", "o", "s", "p", "e", "c", "t", "i", "v", "e">>) @@
     ("melancholic" :> <<"m", "e", "l", "a", "n", "c", "h", "o", "l", "i", "c">>) @@
     ("cozy" :> <<"c", "o", "z", "y">>) @@
     ("intense" :> <<"i", "n", "t", "e", "n", "s", "e">>) @@
     ("dramatic" :> <<"d", "r", "a", "m", "a", "t", "i", "c">>) @@
     ("peaceful" :> <<"p", "e", "a", "c", "e", "f", "u", "l">>) @@
     ("quiet" :> <<"q", "u", "i", "e", "t">>) @@
     ("mysterious" :> <<"m", "y", "s", "t", "e", "r", "i", "o", "u", "s">>) @@
     ("uncertain" :> <<"u", "n", "c", "e", "r", "t", "a", "i", "n">>) @@
     ("restless" :> <<"r", "e", "s", "t", "l", "e", "s", "s">>) @@
     ("dynamic" :> <<"d", "y", "n", "a", "m", "i", "c">>) @@
     ("crisp" :> <<"c", "r", "i", "s", "p">>) @@
     ("alert" :> <<"a", "l", "e", "r", "t">>) @@
     ("comfortable" :> <<"c", "o", "m", "f", "o", "r", "t", "a", "b", "l", "e">>) @@
     ("pleasant" :> <<"p", "l", "e", "a", "s", "a", "n", "t">>) @@
     ("vibrant" :> <<"v", "i", "b", "r", "a", "n", "t">>) @@
     ("lazy" :> <<"l", "a", "z", "y">>) @@
     ("relaxed" :> <<"r", "e", "l", "a", "x", "e", "d">>) @@
     ("sluggish" :> <<"s", "l", "u", "g", "g", "i", "s", "h">>) @@
     ("seeking_rest" :> <<"s", "e", "e", "k", "i", "n", "g", "_", "r", "e", "s", "t">>) @@
     ("Sunny" :> <<"S", "u", "n", "n", "y">>) @@
     ("Partly Cloudy" :> <<"P", "a", "r", "t", "l", "y", " ", "C", "l", "o", "u", "d", "y">>) @@
     ("Cloudy" :> <<"C", "l", "o", "u", "d", "y">>) @@
     ("Rainy" :> <<"R", "a", "i", "n", "y">>) @@
     ("Stormy" :> <<"S", "t", "o", "r", "m", "y">>) @@
     ("Snowy" :> <<"S", "n", "o", "w", "y">>) @@
     ("Foggy" :> <<"F", "o", "g", "g", "y">>) @@
     ("Windy" :> <<"W", "i", "n", "d", "y">>) @@
     ("unknown" :> <<"u", "n", "k", "n", "o", "w", "n">>) @@
     ("light" :> <<"l", "i", "g", "h", "t">>) @@
     ("Overcast" :> <<"O", "v", "e", "r", "c", "a", "s", "t">>) @@
     ("HEAVY RAIN" :> <<"H", "E", "A", "V", "Y", " ", "R", "A", "I", "N">>) @@
     ("hail" :> <<"h", "a", "i", "l">>) @@
     ("2024-12-29" :> <<"2", "0", "2", "4", "-", "1", "2", "-", "2", "9">>) @@
     ("2024-12-30" :> <<"2", "0", "2", "4", "-", "1", "2", "-", "3", "0">>) @@
     ("2024-12-31" :> <<"2", "0", "2", "4", "-", "1", "2", "-", "3", "1">>) @@
     ("2025-01-01" :> <<"2", "0", "2", "5", "-", "0", "1", "-", "0", "1">>) @@
     ("2025-01-02" :> <<"2", "0", "2", "5", "-", "0", "1", "-", "0", "2">>) @@
     ("2025-01-03" :> <<"2", "0", "2", "5", "-", "0", "1", "-", "0", "3">>) @@
     ("2025-01-04" :> <<"2", "0", "2", "5", "-", "0", "1", "-", "0", "4">>) @@
     ("2025-01-05" :> <<"2", "0", "2", "5", "-", "0", "1", "-", "0", "5">>)

\* Weather to mood correlation mappings.
WEATHER_MOOD_MAP ==
     ("sunny" :> [primary_mood |-> "energetic",
          secondary_moods |-> <<"hopeful", "calm">>,
          description |-> "bright and uplifting"]) @@
     ("partly_cloudy" :> [primary_mood |-> "calm",
          secondary_moods |-> <<"reflective", "balanced">>,
          description |-> "mixed and transitional"]) @@
     ("cloudy" :> [primary_mood |-> "reflective",
          secondary_moods |-> <<"calm", "introspective">>,
          description |-> "contemplative and soft"]) @@
     ("rainy" :> [primary_mood |-> "reflective",
          secondary_moods |-> <<"melancholic", "cozy">>,
          description |-> "introspective and cozy"]) @@
     ("stormy" :> [primary_mood |-> "intense",
          secondary_moods |-> <<"energetic", "dramatic">>,
          description |-> "powerful and dramatic"]) @@
     ("snowy" :> [primary_mood |-> "calm",
          secondary_moods |-> <<"peaceful", "quiet">>,
          description |-> "serene and hushed"]) @@
     ("foggy" :> [primary_mood |-> "mysterious",
          secondary_moods |-> <<"reflective", "uncertain">>,
          description |-> "unclear and mysterious"]) @@
     ("windy" :> [primary_mood |-> "energetic",
          secondary_moods |-> <<"restless", "dynamic">>,
          description |-> "dynamic and changeable"])

\* Temperature-based mood modifiers, in the dict's insertion order.
TEMP_MODIFIERS ==
  <<
     [category |-> "very_cold", threshold |-> 0, moods |-> <<"cozy", "introspective">>],
     [category |-> "cold", threshold |-> 10, moods |-> <<"crisp", "alert">>],
     [category |-> "cool", threshold |-> 15, moods |-> <<"comfortable", "balanced">>],
     [category |-> "mild", threshold |-> 20, moods |-> <<"pleasant", "calm">>],
     [category |-> "warm", threshold |-> 25, moods |-> <<"energetic", "vibrant">>],
     [category |-> "hot", threshold |-> 30, moods |-> <<"lazy", "relaxed">>],
     [category |-> "very_hot", threshold |-> 35, moods |-> <<"sluggish", "seeking_rest">>]
  >>

\* Journaling prompt templates: each template is its literal parts with the
\* replacement field between them.
PROMPT_TEMPLATES ==
     ("reflective" :>
       <<
          <<"Today's ", "{weather_desc}", " weather invites reflection. What emotions are sitting with you right now?">>,
          <<"The ", "{weather_condition}", " outside mirrors inner contemplation. What thoughts have been recurring lately?">>,
          <<"In this ", "{weather_desc}", " moment, what aspects of your life deserve deeper attention?">>,
          <<"How does today's ", "{weather_condition}", " weather influence your perspective on recent events?">>,
          <<"What would you tell your past self about handling days like this ", "{weather_desc}", " one?">>
       >>) @@
     ("energetic" :>
       <<
          <<"The ", "{weather_desc}", " weather sparks energy! What goals are you excited to pursue?">>,
          <<"This ", "{weather_condition}", " day feels full of possibility. What would you do if you couldn't fail?">>,
          <<"With ", "{weather_desc}", " conditions outside, what adventure or project calls to you?">>,
          <<"The vibrant ", "{weather_condition}", " weather energizes action. What's one thing you'll accomplish today?">>,
          <<"This ", "{weather_desc}", " energy is contagious. What brings you alive right now?">>
       >>) @@
     ("calm" :>
       <<
          <<"The ", "{weather_desc}", " atmosphere invites peace. What are you grateful for today?">>,
          <<"In this ", "{weather_condition}", " stillness, what simple pleasures brought you joy?">>,
          <<"Today's ", "{weather_desc}", " weather suggests rest. How can you be kinder to yourself?">>,
          <<"The gentle ", "{weather_condition}", " conditions create space for calm. What does your body need right now?">>,
          <<"This ", "{weather_desc}", " moment is perfect for appreciation. What went well today?">>
       >>) @@
     ("melancholic" :>
       <<
          <<"The ", "{weather_desc}", " weather holds space for sadness. What loss or change are you processing?">>,
          <<"This ", "{weather_condition}", " day allows for gentle grief. What do you need to let go of?">>,
          <<"In ", "{weather_desc}", " weather like this, what memories surface for you?">>,
          <<"The ", "{weather_condition}", " atmosphere validates difficult feelings. What hurts right now?">>,
          <<"This ", "{weather_desc}", " backdrop supports healing. What wisdom has pain taught you?">>
       >>) @@
     ("hopeful" :>
       <<
          <<"Today's ", "{weather_desc}", " weather whispers possibility. What new beginning excites you?">>,
          <<"The ", "{weather_condition}", " conditions feel like a fresh start. What are you hopeful about?">>,
          <<"This ", "{weather_desc}", " day suggests transformation. What positive change do you sense coming?">>,
          <<"With ", "{weather_condition}", " weather like this, what dream feels closer to reality?">>,
          <<"The ", "{weather_desc}", " atmosphere nurtures hope. What future version of yourself can you envision?">>
       >>) @@
     ("intense" :>
       <<
          <<"Today's ", "{weather_desc}", " weather matches inner intensity. What strong emotions need expression?">>,
          <<"The ", "{weather_condition}", " conditions mirror passion. What are you fired up about?">>,
          <<"This ", "{weather_desc}", " energy demands attention. What truth needs to be spoken?">>,
          <<"The powerful ", "{weather_condition}", " weather reflects big feelings. What's demanding to be felt?">>,
          <<"In this ", "{weather_desc}", " intensity, what bold action is calling you?">>
       >>) @@
     ("cozy" :>
       <<
          <<"The ", "{weather_desc}", " weather invites coziness. What comforts are you savoring today?">>,
          <<"This ", "{weather_condition}", " day is perfect for nesting. What makes you feel safe and warm?">>,
          <<"Today's ", "{weather_desc}", " conditions suggest hygge. What small pleasures warmed your heart?">>,
          <<"The ", "{weather_condition}", " weather creates a cocoon. What are you protecting or nurturing?">>,
          <<"This ", "{weather_desc}", " atmosphere invites softness. How can you pamper yourself today?">>
       >>) @@
     ("balanced" :>
       <<
          <<"Today's ", "{weather_desc}", " weather suggests equilibrium. What feels in harmony right now?">>,
          <<"The ", "{weather_condition}", " conditions mirror balance. Where are you finding your center?">>,
          <<"This ", "{weather_desc}", " day invites moderation. What needs right-sizing in your life?">>,
          <<"The steady ", "{weather_condition}", " weather reflects stability. What foundations are you building?">>,
          <<"In this ", "{weather_desc}", " balance, what opposing forces are you integrating?">>
       >>)

\* Weather condition keywords, in the dict's insertion order.
WEATHER_KEYWORDS ==
  <<
     [condition |-> "sunny", keywords |-> <<"sun", "sunny", "clear", "bright">>],
     [condition |-> "partly_cloudy", keywords |-> <<"partly cloudy", "partly sunny", "scattered clouds">>],
     [condition |-> "cloudy", keywords |-> <<"cloudy", "overcast", "grey", "gray">>],
     [condition |-> "rainy", keywords |-> <<"rain", "rainy", "drizzle", "shower", "precipitation">>],
     [condition |-> "stormy", keywords |-> <<"storm", "thunder", "lightning", "severe">>],
     [condition |-> "snowy", keywords |-> <<"snow", "snowy", "flurries", "blizzard">>],
     [condition |-> "foggy", keywords |-> <<"fog", "foggy", "mist", "misty", "haze">>],
     [condition |-> "windy", keywords |-> <<"wind", "windy", "breezy", "gusty">>]
  >>

(***************************************************************************)
(* weather_handler.py                                                      *)
(***************************************************************************)
\* The loop of classify_weather_condition from entry i of WEATHER_KEYWORDS on:
\* the condition of the first entry with a keyword in the description.
RECURSIVE ScanKeywords(_, _)
ScanKeywords(d, i) ==
  IF i > Len(WEATHER_KEYWORDS)
  THEN "partly_cloudy"
  ELSE IF \E k \in DOMAIN WEATHER_KEYWORDS[i].keywords :
            Contains(Chars[WEATHER_KEYWORDS[i].keywords[k]], d)
       THEN WEATHER_KEYWORDS[i].condition
       ELSE ScanKeywords(d, i + 1)

\* Mutant: the description is not lower-cased before the scan.
classify_weather_condition_NoLower(desc) == ScanKeywords(desc, 1)

classify_weather_condition(desc) == ScanKeywords(Lower(desc), 1)

\* Insert item e into the list s, sorted by descending threshold, after every
\* item whose threshold is not smaller (sorted(..., reverse=True) is stable).
RECURSIVE InsertDesc(_, _)
InsertDesc(e, s) ==
  IF Len(s) = 0 THEN <<e>>
  ELSE IF Head(s).threshold >= e.threshold
       THEN <<Head(s)>> \o InsertDesc(e, Tail(s))
       ELSE <<e>> \o s

\* sorted(items, key=threshold, reverse=True)
RECURSIVE SortedDesc(_)
SortedDesc(s) ==
  IF Len(s) = 0 THEN <<>>
  ELSE InsertDesc(s[Len(s)], SortedDesc(SubSeq(s, 1, Len(s) - 1)))

\* The loop of classify_temperature over the sorted items from item i on.
RECURSIVE ScanThresholds(_, _, _)
ScanThresholds(items, t, i) ==
  IF i > Len(items) THEN "very_cold"
  ELSE IF t >= items[i].threshold THEN items[i].category
       ELSE ScanThresholds(items, t, i + 1)

\* Mutant: the comparison is strict.
RECURSIVE ScanThresholdsStrict(_, _, _)
ScanThresholdsStrict(items, t, i) ==
  IF i > Len(items) THEN "very_cold"
  ELSE IF t > items[i].threshold THEN items[i].category
       ELSE ScanThresholdsStrict(items, t, i + 1)

classify_temperature_Strict(temp_celsius) ==
  ScanThresholdsStrict(SortedDesc(TEMP_MODIFIERS), temp_celsius, 1)

classify_temperature(temp_celsius) ==
  ScanThresholds(SortedDesc(TEMP_MODIFIERS), temp_celsius, 1)

\* The record get_weather_manual returns (its timestamp left out), with the
\* value its local classified_condition had before the adjustment.
ManualResult(temperature, condition, precipitation, first, final) ==
  [first |-> first,
   data  |-> [temperature          |-> temperature,
              temperature_category |-> classify_temperature(temperature),
              condition            |-> final,
              condition_raw        |-> condition,
              precipitation        |-> precipitation,
              source               |-> "manual"]]

\* Mutant: no adjustment for precipitation.
get_weather_manual_NoOverride(temperature, condition, precipitation) ==
  LET c == classify_weather_condition(condition)
  IN  ManualResult(temperature, condition, precipitation, c, c)

\* Mutant: precipitation overrides every classified condition.
get_weather_manual_AnyOverride(temperature, condition, precipitation) ==
  LET c == classify_weather_condition(condition)
  IN  ManualResult(temperature, condition, precipitation, c,
                   IF precipitation THEN "rainy" ELSE c)

get_weather_manual(temperature, condition, precipitation) ==
  LET c == classify_weather_condition(condition)
  IN  ManualResult(temperature, condition, precipitation, c,
                   IF precipitation /\ c = "cloudy" THEN "rainy" ELSE c)

\* What requests.get and the reading of its JSON give: a response, or an
\* exception (no connection, a timeout, an HTTP error status, a body that
\* lacks a field).
Unreachable == [error |-> "RequestException"]

Succeeded(response) == "temp" \in DOMAIN response

\* The record get_weather_api builds from a response, the clock reading t.
ApiSample(city, response, t) ==
  [temperature          |-> response.temp,
   temperature_category |-> classify_temperature(response.temp),
   condition            |-> classify_weather_condition(response.description),
   condition_raw        |-> response.description,
   precipitation        |-> \/ Contains(Chars["rain"],
                                        Lower(response.description))
                            \/ Contains(Chars["snow"],
                                        Lower(response.description)),
   humidity             |-> response.humidity,
   wind_speed           |-> response.wind_speed,
   city                 |-> city,
   timestamp            |-> t,
   source               |-> "api"]

\* _cache_weather: cache[city] = weather_data (the file holds JSON, which
\* gives back the strings, numbers and booleans of a sample as they were).
cache_weather(c, city, wd) == (city :> wd) @@ c

\* _get_cached_weather: cache.get(city)
get_cached_weather(c, city) == IF city \in DOMAIN c THEN c[city] ELSE None

\* get_weather_api: the value returned and the cache file afterwards.
get_weather_api(key, c, city, response, t) ==
  IF key = NoneStr \/ key = ""
  THEN [value |-> None, cache |-> c]
  ELSE IF Succeeded(response)
       THEN LET wd == ApiSample(city, response, t)
            IN  [value |-> wd, cache |-> cache_weather(c, city, wd)]
       ELSE [value |-> get_cached_weather(c, city), cache |-> c]

(***************************************************************************)
(* Inputs of the weather classifier                                        *)
(***************************************************************************)
\* Temperatures range over -BelowZero..MaxTemp, which holds every threshold.
MaxTemp == 40

BelowZero == 5

Temperatures == (0 - BelowZero)..MaxTemp

\* Every keyword of WEATHER_KEYWORDS.
Keywords ==
  UNION {{WEATHER_KEYWORDS[i].keywords[k] :
            k \in DOMAIN WEATHER_KEYWORDS[i].keywords} :
         i \in DOMAIN WEATHER_KEYWORDS}

\* Words of a description: the keywords, words that hold no keyword, words in
\* upper case, and an option of the manual form as the page passes it.
Words ==
  Keywords \cup {"light", "hail", "Overcast", "HEAVY RAIN", "partly_cloudy"}

\* A description holds at most MaxWords words.
MaxWords == 2

\* The text of the words ws, single spaces between them.
RECURSIVE TextOf(_)
TextOf(ws) ==
  IF Len(ws) = 0 THEN <<>>
  ELSE IF Len(ws) = 1 THEN Chars[ws[1]]
       ELSE Chars[ws[1]] \o <<" ">> \o TextOf(Tail(ws))

Descriptions ==
  {TextOf(ws) : ws \in UNION {[1..n -> Words] : n \in 0..MaxWords}}

\* The condition texts of the manual calls: one word each.
ManualTexts == {Chars[w] : w \in Words}

(***************************************************************************)
(* The components a specification leaves out stay as constructed           *)
(***************************************************************************)
\* No API key, and the cache file as _ensure_cache_file creates it.
IdleApi ==
  api_key = NoneStr /\ cache = <<>> /\ fetched = <<>> /\ api_call = None

IdleWeather ==
  /\ manual_args = None /\ first_classified = Unset /\ weather_data = None
  /\ IdleApi

IdleCondition == description = <<>> /\ classified = Unset

IdleMoods == sample = None /\ moods = None

IdleGen ==
  /\ gen_args = None
  /\ pc = "idle"
  /\ primary_mood = Unset
  /\ all_moods = <<>>
  /\ mood_idx = 0
  /\ prompts = <<>>
  /\ used_templates = {}

\* The entries file as _ensure_data_file creates it.
IdleJournal == entries = <<>> /\ now = 0 /\ ret = None

\* The session state as app.py initialises it.
IdlePage ==
  /\ current_weather = None
  /\ current_prompts = <<>>
  /\ selected_prompt = None
  /\ generated_from = None
  /\ selected_from = None

(***************************************************************************)
(* SpecWeather: get_weather_manual on every input                          *)
(***************************************************************************)
InitWeather ==
  /\ manual_args \in [temperature : Temperatures,
                      condition : ManualTexts,
                      precipitation : BOOLEAN]
  /\ first_classified = Unset
  /\ weather_data = None
  /\ IdleApi
  /\ IdleCondition /\ IdleMoods /\ IdleGen /\ IdleJournal /\ IdlePage

GetWeatherManual ==
  /\ weather_data = None
  /\ LET r == get_weather_manual(manual_args.temperature,
                                 manual_args.condition,
                                 manual_args.precipitation)
     IN  /\ first_classified' = r.first
         /\ weather_data' = r.data
  /\ UNCHANGED <<pageVars, manual_args, apiVars, conditionVars, moodVars, genVars,
                 journalVars>>

NextWeather == GetWeatherManual

SpecWeather == InitWeather /\ [][NextWeather]_vars

(***************************************************************************)
(* SpecCondition: classify_weather_condition on every description          *)
(***************************************************************************)
InitCondition ==
  /\ description \in Descriptions
  /\ classified = Unset
  /\ IdleWeather /\ IdleMoods /\ IdleGen /\ IdleJournal /\ IdlePage

ClassifyWeatherCondition ==
  /\ classified = Unset
  /\ classified' = classify_weather_condition(description)
  /\ UNCHANGED <<pageVars, description, weatherVars, moodVars, genVars, journalVars>>

NextCondition == ClassifyWeatherCondition

SpecCondition == InitCondition /\ [][NextCondition]_vars

(***************************************************************************)
(* Claims on the weather classifier                                        *)
(***************************************************************************)
ManualCalled == manual_args # None /\ weather_data # None

\* The call of the spec's example: 5 degrees, "overcast", precipitation.
OvercastCall ==
  /\ ManualCalled
  /\ manual_args = [temperature |-> 5, condition |-> Chars["overcast"],
                    precipitation |-> TRUE]

\* C1 as stated: get_weather_manual(5, "overcast", true) classifies the
\* condition as cloudy, overrides it to rainy, and gives the temperature
\* category cold.
C1_OvercastIsCold ==
  OvercastCall =>
    /\ first_classified = "cloudy"
    /\ weather_data.condition = "rainy"
    /\ weather_data.temperature_category = "cold"

\* C1 amended: get_weather_manual(5, "overcast", true) classifies the
\* condition as cloudy, overrides it to rainy, and gives the temperature
\* category very_cold (5 is below the threshold 10 of cold; the greatest
\* threshold it reaches is 0, that of very_cold).
C1_OvercastIsVeryCold ==
  OvercastCall =>
    /\ first_classified = "cloudy"
    /\ weather_data.condition = "rainy"
    /\ weather_data.temperature_category = "very_cold"

C1_Witness == OvercastCall /\ weather_data.condition = "rainy"

\* The thresholds of TEMP_MODIFIERS that t reaches.
ReachedThresholds(t) ==
  {i \in DOMAIN TEMP_MODIFIERS : TEMP_MODIFIERS[i].threshold <= t}

\* C2: classify_temperature(t) is the category whose threshold is the
\* greatest threshold less than or equal to t, and very_cold when t is below
\* every threshold; the thresholds are 0, 10, 15, 20, 25, 30, 35.
C2_GreatestThresholdReached ==
  /\ {TEMP_MODIFIERS[i].threshold : i \in DOMAIN TEMP_MODIFIERS}
       = {0, 10, 15, 20, 25, 30, 35}
  /\ ManualCalled =>
       LET t == weather_data.temperature
           cat == weather_data.temperature_category
       IN  IF ReachedThresholds(t) = {}
           THEN cat = "very_cold"
           ELSE \E i \in ReachedThresholds(t) :
                  /\ \A j \in ReachedThresholds(t) :
                       TEMP_MODIFIERS[j].threshold <= TEMP_MODIFIERS[i].threshold
                  /\ cat = TEMP_MODIFIERS[i].category

C2_Witness ==
  /\ ManualCalled
  /\ weather_data.temperature = 10
  /\ weather_data.temperature_category = "cold"

\* The order in which the conditions are declared.
DeclaredOrder ==
  <<"sunny", "partly_cloudy", "cloudy", "rainy", "stormy", "snowy", "foggy",
    "windy">>

\* Some keyword of the condition declared i-th occurs in the text d.
KeywordOccurs(i, d) ==
  \E e \in DOMAIN WEATHER_KEYWORDS :
    /\ WEATHER_KEYWORDS[e].condition = DeclaredOrder[i]
    /\ \E k \in DOMAIN WEATHER_KEYWORDS[e].keywords :
         Contains(Chars[WEATHER_KEYWORDS[e].keywords[k]], d)

\* C3: classify_weather_condition returns the condition of the first entry,
\* in the declared order, that has a keyword occurring as a substring of the
\* lower-cased description, and partly_cloudy when no keyword occurs.
C3_FirstMatchInDeclaredOrder ==
  classified # Unset =>
    LET d == Lower(description)
        hits == {i \in DOMAIN DeclaredOrder : KeywordOccurs(i, d)}
    IN  IF hits = {}
        THEN classified = "partly_cloudy"
        ELSE \E i \in hits : /\ \A j \in hits : i <= j
                             /\ classified = DeclaredOrder[i]

\* "partly sunny" holds a keyword of partly_cloudy and the keyword "sun" of
\* sunny, which is declared first.
C3_Witness ==
  /\ classified = "sunny"
  /\ description = Chars["partly sunny"]

\* C4: the condition of a manual sample is rainy when precipitation is true
\* and the classified condition is exactly cloudy, and the classified
\* condition otherwise; no sample has condition cloudy with precipitation.
C4_OverrideOnlyForCloudy ==
  ManualCalled =>
    /\ first_classified = classify_weather_condition(manual_args.condition)
    /\ weather_data.condition =
         IF manual_args.precipitation /\ first_classified = "cloudy"
         THEN "rainy" ELSE first_classified
    /\ ~(weather_data.condition = "cloudy" /\ weather_data.precipitation)

\* Precipitation with a classified condition other than cloudy: no override.
C4_Witness ==
  /\ ManualCalled
  /\ manual_args.precipitation
  /\ first_classified = "snowy"
  /\ weather_data.condition = "snowy"

(***************************************************************************)
(* prompt_generator.py                                                     *)
(***************************************************************************)
\* dict.get(key, default) on a dict held as a record.
Get(d, key, default) == IF key \in DOMAIN d THEN d[key] ELSE default

\* self.temp_modifiers.get(temp_category, {}).get('moods', [])
TempMoods(temp_category) ==
  IF \E i \in DOMAIN TEMP_MODIFIERS : TEMP_MODIFIERS[i].category = temp_category
  THEN LET i == CHOOSE i \in DOMAIN TEMP_MODIFIERS :
                  TEMP_MODIFIERS[i].category = temp_category
       IN  TEMP_MODIFIERS[i].moods
  ELSE <<>>

\* Mutant: an unmapped condition uses the row of sunny.
MoodInfo_DefaultSunny(condition) ==
  IF condition \in DOMAIN WEATHER_MOOD_MAP
  THEN WEATHER_MOOD_MAP[condition]
  ELSE WEATHER_MOOD_MAP["sunny"]

\* self.mood_map.get(condition, self.mood_map['partly_cloudy'])
MoodInfo(condition) ==
  IF condition \in DOMAIN WEATHER_MOOD_MAP
  THEN WEATHER_MOOD_MAP[condition]
  ELSE WEATHER_MOOD_MAP["partly_cloudy"]

\* `mood in secondary_moods` on a list.
InList(x, s) == \E i \in DOMAIN s : s[i] = x

\* Mutant: a temperature mood equal to the primary mood is merged too.
RECURSIVE MergeTempMoods_KeepPrimary(_, _, _)
MergeTempMoods_KeepPrimary(temp_moods, secondary_moods, primary) ==
  IF Len(temp_moods) = 0 THEN secondary_moods
  ELSE MergeTempMoods_KeepPrimary(
         Tail(temp_moods),
         IF ~InList(Head(temp_moods), secondary_moods)
         THEN Append(secondary_moods, Head(temp_moods))
         ELSE secondary_moods,
         primary)

\* The merge loop of determine_moods over the temperature moods left.
RECURSIVE MergeTempMoods(_, _, _)
MergeTempMoods(temp_moods, secondary_moods, primary) ==
  IF Len(temp_moods) = 0 THEN secondary_moods
  ELSE MergeTempMoods(
         Tail(temp_moods),
         IF ~InList(Head(temp_moods), secondary_moods)
            /\ Head(temp_moods) # primary
         THEN Append(secondary_moods, Head(temp_moods))
         ELSE secondary_moods,
         primary)

determine_moods(wd) ==
  LET condition == Get(wd, "condition", "partly_cloudy")
      temp_category == Get(wd, "temperature_category", "mild")
      mood_info == MoodInfo(condition)
  IN  [primary   |-> mood_info.primary_mood,
       secondary |-> MergeTempMoods(TempMoods(temp_category),
                                    mood_info.secondary_moods,
                                    mood_info.primary_mood)]

\* template.format(weather_desc=..., weather_condition=...): the literal parts
\* with each replacement field replaced by its argument.
RECURSIVE Format(_, _, _)
Format(template, weather_desc, weather_condition) ==
  IF Len(template) = 0 THEN ""
  ELSE (IF Head(template) = "{weather_desc}" THEN weather_desc
        ELSE IF Head(template) = "{weather_condition}" THEN weather_condition
        ELSE Head(template))
       \o Format(Tail(template), weather_desc, weather_condition)

\* The prompt text of a template for a condition (lines 96-99 and 116-119).
PromptText(template, condition) ==
  Format(template,
         MoodInfo(condition).description,
         Join(Replace(Chars[condition], "_", " ")))

\* The items of the list s that satisfy no membership in the set used.
RECURSIVE NotUsed(_, _)
NotUsed(s, used) ==
  IF Len(s) = 0 THEN <<>>
  ELSE (IF Head(s) \in used THEN <<>> ELSE <<Head(s)>>)
       \o NotUsed(Tail(s), used)

\* available_templates of the walk (line 86).
AvailableTemplates(mood, used) == NotUsed(PROMPT_TEMPLATES[mood], used)

\* Mutant: the top-up draws from every template of the primary mood.
Available_NoFilter(primary, used) == PROMPT_TEMPLATES[primary]

\* Mutant: the top-up finds no template.
Available_None(primary, used) == <<>>

\* available of the top-up (line 109).
Available(primary, used) == NotUsed(PROMPT_TEMPLATES[primary], used)

\* Mutant: the walk stops only past the requested number.
WalkFull_OffByOne(ps, num_prompts) == Len(ps) > num_prompts

\* The walk's stop test (line 76).
WalkFull(ps, num_prompts) == Len(ps) >= num_prompts

\* The permutations of a list: the outcomes of random.shuffle.
Shuffles(s) ==
  {[i \in DOMAIN s |-> s[p[i]]] :
     p \in {q \in [DOMAIN s -> DOMAIN s] : \A i, j \in DOMAIN s :
                                             q[i] = q[j] => i = j}}

(***************************************************************************)
(* Inputs of the mood resolver and the prompt generator                    *)
(***************************************************************************)
Conditions == DOMAIN WEATHER_MOOD_MAP

TempCategories ==
  {TEMP_MODIFIERS[i].category : i \in DOMAIN TEMP_MODIFIERS}

\* Weather samples: every pair of the enumerations, a condition and a
\* category the tables do not map, and samples that lack one of the keys.
SampleInputs ==
  {[condition |-> c, temperature_category |-> t] :
     c \in Conditions \cup {"hail"}, t \in TempCategories \cup {"tropical"}}
  \cup {[temperature_category |-> t] : t \in TempCategories}
  \cup {[condition |-> c] : c \in Conditions}

\* generate_prompts is asked for 0..MaxPrompts prompts.
MaxPrompts == 3

(***************************************************************************)
(* SpecMoods: determine_moods on every sample                              *)
(***************************************************************************)
InitMoods ==
  /\ sample \in SampleInputs
  /\ moods = None
  /\ IdleWeather /\ IdleCondition /\ IdleGen /\ IdleJournal /\ IdlePage

DetermineMoods ==
  /\ moods = None
  /\ moods' = determine_moods(sample)
  /\ UNCHANGED <<pageVars, sample, weatherVars, conditionVars, genVars, journalVars>>

NextMoods == DetermineMoods

SpecMoods == InitMoods /\ [][NextMoods]_vars

(***************************************************************************)
(* SpecPrompts: generate_prompts on every sample and count, one loop       *)
(* iteration at a time                                                     *)
(***************************************************************************)
InitPrompts ==
  /\ gen_args \in [weather_data : SampleInputs, num_prompts : 0..MaxPrompts]
  /\ pc = "start"
  /\ primary_mood = Unset
  /\ all_moods = <<>>
  /\ mood_idx = 0
  /\ prompts = <<>>
  /\ used_templates = {}
  /\ IdleWeather /\ IdleCondition /\ IdleMoods /\ IdleJournal /\ IdlePage

GenCondition == Get(gen_args.weather_data, "condition", "partly_cloudy")

\* Lines 58-72: the moods, the empty prompt list and used-template set.
GenStart ==
  /\ pc = "start"
  /\ LET m == determine_moods(gen_args.weather_data)
     IN  /\ primary_mood' = m.primary
         /\ all_moods' = <<m.primary>> \o m.secondary
  /\ mood_idx' = 1
  /\ prompts' = <<>>
  /\ used_templates' = {}
  /\ pc' = "walk"
  /\ UNCHANGED <<pageVars, gen_args, weatherVars, conditionVars, moodVars, journalVars>>

\* Lines 75-77: the walk ends with the list, or once enough are collected.
WalkExit ==
  /\ pc = "walk"
  /\ mood_idx > Len(all_moods) \/ WalkFull(prompts, gen_args.num_prompts)
  /\ pc' = "topup"
  /\ UNCHANGED <<pageVars, gen_args, primary_mood, all_moods, mood_idx, prompts,
                 used_templates, weatherVars, conditionVars, moodVars, journalVars>>

\* Lines 79-89: a mood without templates, or without an unused one, is skipped.
WalkSkip ==
  /\ pc = "walk"
  /\ mood_idx <= Len(all_moods)
  /\ ~WalkFull(prompts, gen_args.num_prompts)
  /\ LET mood == all_moods[mood_idx]
     IN  \/ mood \notin DOMAIN PROMPT_TEMPLATES
         \/ /\ mood \in DOMAIN PROMPT_TEMPLATES
            /\ Len(AvailableTemplates(mood, used_templates)) = 0
  /\ mood_idx' = mood_idx + 1
  /\ UNCHANGED <<pageVars, gen_args, pc, primary_mood, all_moods, prompts,
                 used_templates, weatherVars, conditionVars, moodVars, journalVars>>

\* Lines 91-105: one unused template of the mood, chosen at random.
WalkPick ==
  /\ pc = "walk"
  /\ mood_idx <= Len(all_moods)
  /\ ~WalkFull(prompts, gen_args.num_prompts)
  /\ LET mood == all_moods[mood_idx]
     IN  /\ mood \in DOMAIN PROMPT_TEMPLATES
         /\ \E k \in DOMAIN AvailableTemplates(mood, used_templates) :
              LET template == AvailableTemplates(mood, used_templates)[k]
              IN  /\ used_templates' = used_templates \cup {template}
                  /\ prompts' =
                       Append(prompts,
                              [mood       |-> mood,
                               text       |-> PromptText(template, GenCondition),
                               is_primary |-> mood = primary_mood])
  /\ mood_idx' = mood_idx + 1
  /\ UNCHANGED <<pageVars, gen_args, pc, primary_mood, all_moods, weatherVars,
                 conditionVars, moodVars, journalVars>>

\* The top-up loop's test (lines 108-111).
TopUpOpen ==
  /\ Len(prompts) < gen_args.num_prompts
  /\ primary_mood \in DOMAIN PROMPT_TEMPLATES
  /\ Len(Available(primary_mood, used_templates)) > 0

\* Lines 113-125: one more unused template of the primary mood.
TopUpPick ==
  /\ pc = "topup"
  /\ TopUpOpen
  /\ \E k \in DOMAIN Available(primary_mood, used_templates) :
       LET template == Available(primary_mood, used_templates)[k]
       IN  /\ used_templates' = used_templates \cup {template}
           /\ prompts' =
                Append(prompts,
                       [mood       |-> primary_mood,
                        text       |-> PromptText(template, GenCondition),
                        is_primary |-> TRUE])
  /\ UNCHANGED <<pageVars, gen_args, pc, primary_mood, all_moods, mood_idx,
                 weatherVars, conditionVars, moodVars, journalVars>>

\* Lines 127-130: the list is shuffled and returned.
ShuffleAndReturn ==
  /\ pc = "topup"
  /\ ~TopUpOpen
  /\ prompts' \in Shuffles(prompts)
  /\ pc' = "done"
  /\ UNCHANGED <<pageVars, gen_args, primary_mood, all_moods, mood_idx,
                 used_templates, weatherVars, conditionVars, moodVars, journalVars>>

NextPrompts ==
  GenStart \/ WalkExit \/ WalkSkip \/ WalkPick \/ TopUpPick \/ ShuffleAndReturn

SpecPrompts == InitPrompts /\ [][NextPrompts]_vars

(***************************************************************************)
(* Claims on the mood resolver and the prompt generator                    *)
(***************************************************************************)
\* C5: the secondary mood list returned by determine_moods contains no
\* duplicate mood and never contains the primary mood.
C5_SecondaryDistinctWithoutPrimary ==
  moods # None =>
    /\ \A i, j \in DOMAIN moods.secondary :
         i # j => moods.secondary[i] # moods.secondary[j]
    /\ \A i \in DOMAIN moods.secondary : moods.secondary[i] # moods.primary

\* sunny at warm: the temperature list holds the primary mood energetic.
C5_Witness ==
  /\ moods # None
  /\ sample = [condition |-> "sunny", temperature_category |-> "warm"]
  /\ moods.primary = "energetic"
  /\ InList("energetic", TempMoods("warm"))

\* C8: within one call of generate_prompts no two candidates have identical
\* rendered text, and every template is used at most once, across the walk
\* and the top-up.
C8_NoRepeatedText ==
  /\ \A i, j \in DOMAIN prompts : i # j => prompts[i].text # prompts[j].text
  /\ Cardinality(used_templates) = Len(prompts)

\* A returned list that holds a primary prompt of the walk and one of the
\* top-up.
C8_Witness ==
  /\ pc = "done"
  /\ \E i, j \in DOMAIN prompts :
       /\ i # j
       /\ prompts[i].mood = primary_mood
       /\ prompts[j].mood = primary_mood

\* C9: generate_prompts returns at most num_prompts candidates, none when
\* num_prompts is 0, whatever the random choices.
C9_AtMostRequested ==
  gen_args # None => Len(prompts) <= gen_args.num_prompts

\* The walk stopped at the requested number with moods left to visit.
C9_Witness ==
  /\ pc = "done"
  /\ gen_args.num_prompts > 0
  /\ Len(prompts) = gen_args.num_prompts
  /\ mood_idx <= Len(all_moods)

(***************************************************************************)
(* The clock and the calendar                                              *)
(***************************************************************************)
\* The clock counts ticks, TicksPerDay of them to a calendar day, and does
\* not run backwards; the model stops it at the end of day MaxDay.
TicksPerDay == 2

MaxDay == 3

MaxNow == (MaxDay + 1) * TicksPerDay - 1

\* The calendar day (an ordinal, from 0) of the instant t.
Day(t) == t \div TicksPerDay

\* The days of the model, as strftime('%Y-%m-%d') writes them: day 0 is
\* 2024-12-29, so that the days cross a month and a year.
Calendar ==
  <<"2024-12-29", "2024-12-30", "2024-12-31", "2025-01-01", "2025-01-02",
    "2025-01-03", "2025-01-04", "2025-01-05">>

\* datetime.strftime('%Y-%m-%d') of the instant t.
strftime(t) == Calendar[Day(t) + 1]

\* datetime.fromisoformat(date_str), as the ordinal of the day.
fromisoformat(date_str) ==
  (CHOOSE i \in DOMAIN Calendar : Calendar[i] = date_str) - 1

(***************************************************************************)
(* Text, continued                                                         *)
(***************************************************************************)
\* a < b on str: the first differing character decides; a proper prefix is
\* smaller.
RECURSIVE LexLess(_, _)
LexLess(a, b) ==
  IF Len(b) = 0 THEN FALSE
  ELSE IF Len(a) = 0 THEN TRUE
  ELSE IF Head(a) = Head(b) THEN LexLess(Tail(a), Tail(b))
  ELSE Ord(Head(a)) < Ord(Head(b))

\* sorted(S) for a set S of strings.
RECURSIVE SortedStrings(_)
SortedStrings(S) ==
  IF S = {} THEN <<>>
  ELSE LET least == CHOOSE x \in S :
                      \A y \in S \ {x} : LexLess(Chars[x], Chars[y])
       IN  <<least>> \o SortedStrings(S \ {least})

\* The characters str.split() takes as separators (those of them that the
\* texts here hold).
Whitespace == {" ", "\t", "\n"}

\* len(text.split()): the number of maximal runs of characters that are not
\* whitespace.
WordCount(text) ==
  Cardinality({i \in DOMAIN text :
                 /\ text[i] \notin Whitespace
                 /\ (i = 1 \/ text[i - 1] \in Whitespace)})

(***************************************************************************)
(* journal_manager.py                                                      *)
(***************************************************************************)
\* The entry create_entry builds from its arguments and its three clock
\* reads (id and timestamp are the instants read; isoformat is one-to-one).
NewEntry(wd, mood_tags, prompt, journal_text, t_id, t_timestamp, t_date) ==
  [id         |-> t_id,
   timestamp  |-> t_timestamp,
   date       |-> strftime(t_date),
   weather    |-> [temperature   |-> Get(wd, "temperature", None),
                   condition     |-> Get(wd, "condition", NoneStr),
                   condition_raw |-> Get(wd, "condition_raw", None),
                   precipitation |-> Get(wd, "precipitation", FALSE)],
   mood_tags  |-> mood_tags,
   prompt     |-> prompt,
   text       |-> journal_text,
   word_count |-> WordCount(journal_text)]

\* Mutant: the new entry goes to the end of the list.
create_entry_Append(es, entry) == es \o <<entry>>

\* The list create_entry saves: the new entry at the beginning.
create_entry(es, entry) == <<entry>> \o es

\* [e for e in entries if e['id'] != entry_id]
RECURSIVE WithoutId(_, _)
WithoutId(es, entry_id) ==
  IF Len(es) = 0 THEN <<>>
  ELSE (IF Head(es).id # entry_id THEN <<Head(es)>> ELSE <<>>)
       \o WithoutId(Tail(es), entry_id)

\* Mutant: every entry with the id is dropped but the first.
delete_entry_KeepFirst(es, entry_id) ==
  IF \E i \in DOMAIN es : es[i].id = entry_id
  THEN LET first == CHOOSE i \in DOMAIN es :
                      /\ es[i].id = entry_id
                      /\ \A j \in 1..(i - 1) : es[j].id # entry_id
       IN  [entries |-> <<es[first]>> \o WithoutId(es, entry_id),
            value |-> TRUE]
  ELSE [entries |-> es, value |-> FALSE]

\* delete_entry: the list the file holds afterwards, and the flag returned.
delete_entry(es, entry_id) ==
  LET kept == WithoutId(es, entry_id)
  IN  IF Len(kept) < Len(es)
      THEN [entries |-> kept, value |-> TRUE]
      ELSE [entries |-> es, value |-> FALSE]

\* An optional integer argument that is given: None otherwise.
Some(n) == [int |-> n]

\* get_all_entries(limit): a limit that is None or 0 is no limit; a negative
\* one cuts that many entries off the end.
get_all_entries(es, limit) ==
  IF limit = None \/ limit.int = 0 THEN es
  ELSE IF limit.int > 0
       THEN SubSeq(es, 1, IF limit.int < Len(es) THEN limit.int ELSE Len(es))
       ELSE SubSeq(es, 1, IF Len(es) + limit.int > 0
                          THEN Len(es) + limit.int ELSE 0)

\* Mutant: the word count is left as it was.
Updated_KeepCount(e, updated_text, t) ==
  ("updated_at" :> t) @@ [e EXCEPT !.text = updated_text]

\* The entry update_entry leaves in place of e, the clock reading t.
Updated(e, updated_text, t) ==
  ("updated_at" :> t) @@
  [e EXCEPT !.text = updated_text, !.word_count = WordCount(updated_text)]

\* Mutant: the updated entry is moved to the front of the list.
update_entry_ToFront(es, entry_id, updated_text, t) ==
  IF \E i \in DOMAIN es : es[i].id = entry_id
  THEN LET first == CHOOSE i \in DOMAIN es :
                      /\ es[i].id = entry_id
                      /\ \A j \in 1..(i - 1) : es[j].id # entry_id
       IN  [entries |-> <<Updated(es[first], updated_text, t)>>
                        \o SubSeq(es, 1, first - 1)
                        \o SubSeq(es, first + 1, Len(es)),
            value |-> TRUE]
  ELSE [entries |-> es, value |-> FALSE]

\* update_entry: the first entry with the id is updated and the list saved;
\* the list the file holds afterwards, and the flag returned.
update_entry(es, entry_id, updated_text, t) ==
  IF \E i \in DOMAIN es : es[i].id = entry_id
  THEN LET first == CHOOSE i \in DOMAIN es :
                      /\ es[i].id = entry_id
                      /\ \A j \in 1..(i - 1) : es[j].id # entry_id
       IN  [entries |-> [es EXCEPT ![first] =
                                     Updated(es[first], updated_text, t)],
            value |-> TRUE]
  ELSE [entries |-> es, value |-> FALSE]

\* Mutant: the dates in the order of the file, not sorted.
RECURSIVE StreakDates_Unsorted(_)
StreakDates_Unsorted(es) ==
  IF Len(es) = 0 THEN <<>>
  ELSE LET rest == StreakDates_Unsorted(Tail(es))
       IN  IF InList(Head(es).date, rest) THEN rest
           ELSE <<Head(es).date>> \o rest

\* sorted(set(e.get('date') for e in entries if e.get('date')))
StreakDates(es) == SortedStrings({es[i].date : i \in DOMAIN es})

\* The loop of _calculate_longest_streak from index i (from 1) on.
RECURSIVE LongestLoop(_, _, _, _)
LongestLoop(dates, i, max_streak, current_streak) ==
  IF i > Len(dates) THEN max_streak
  ELSE IF fromisoformat(dates[i]) - fromisoformat(dates[i - 1]) = 1
       THEN LongestLoop(dates, i + 1,
                        IF current_streak + 1 > max_streak
                        THEN current_streak + 1 ELSE max_streak,
                        current_streak + 1)
       ELSE LongestLoop(dates, i + 1, max_streak, 1)

\* Mutant: the loop over the later dates is left out.
calculate_longest_streak_NoLoop(dates) == IF Len(dates) = 0 THEN 0 ELSE 1

calculate_longest_streak(dates) ==
  IF Len(dates) = 0 THEN 0 ELSE LongestLoop(dates, 2, 1, 1)

\* reversed(dates)
Reversed(s) == [i \in DOMAIN s |-> s[Len(s) + 1 - i]]

\* The loop of _calculate_current_streak over the dates ds from index i
\* (from 0) on.
RECURSIVE CurrentLoop(_, _, _, _)
CurrentLoop(ds, today, i, streak) ==
  IF i >= Len(ds) THEN streak
  ELSE IF fromisoformat(ds[i + 1]) = today - i
       THEN CurrentLoop(ds, today, i + 1, streak + 1)
       ELSE streak

calculate_current_streak(dates, today) ==
  IF Len(dates) = 0 THEN 0 ELSE CurrentLoop(Reversed(dates), today, 0, 0)

\* sum(e.get('word_count', 0) for e in entries)
RECURSIVE TotalWords(_)
TotalWords(es) ==
  IF Len(es) = 0 THEN 0 ELSE Head(es).word_count + TotalWords(Tail(es))

\* A dict with integer values, in insertion order: the list of its items.
\* d.get(key, 0)
ItemCount(d, key) ==
  IF \E i \in DOMAIN d : d[i].key = key
  THEN d[CHOOSE i \in DOMAIN d : d[i].key = key].count
  ELSE 0

\* d[key] = d.get(key, 0) + 1: a new key goes last, a known key keeps its
\* place.
Tally(d, key) ==
  IF \E i \in DOMAIN d : d[i].key = key
  THEN [i \in DOMAIN d |->
          IF d[i].key = key THEN [key |-> key, count |-> d[i].count + 1]
          ELSE d[i]]
  ELSE Append(d, [key |-> key, count |-> 1])

\* The inner loop of the mood frequency: the mood tags of one entry.
RECURSIVE TallyTags(_, _)
TallyTags(d, tags) ==
  IF Len(tags) = 0 THEN d ELSE TallyTags(Tally(d, Head(tags)), Tail(tags))

\* mood_counts after the entries es.
RECURSIVE MoodCounts(_, _)
MoodCounts(d, es) ==
  IF Len(es) = 0 THEN d
  ELSE MoodCounts(TallyTags(d, Get(Head(es), "mood_tags", <<>>)), Tail(es))

\* weather_counts after the entries es: a condition that is None or empty
\* is not counted.
RECURSIVE WeatherCounts(_, _)
WeatherCounts(d, es) ==
  IF Len(es) = 0 THEN d
  ELSE LET condition == Get(Get(Head(es), "weather", <<>>), "condition",
                            NoneStr)
       IN  WeatherCounts(IF condition # NoneStr /\ condition # ""
                         THEN Tally(d, condition) ELSE d,
                         Tail(es))

\* Mutant: of the items with the greatest count the last one wins.
RECURSIVE MaxItem_Last(_, _, _)
MaxItem_Last(d, i, best) ==
  IF i > Len(d) THEN best
  ELSE MaxItem_Last(d, i + 1, IF d[i].count >= best.count THEN d[i] ELSE best)

\* max(d.items(), key=lambda x: x[1]) from item i on, best being the
\* greatest so far: max keeps the first of the items with the greatest count.
RECURSIVE MaxItem(_, _, _)
MaxItem(d, i, best) ==
  IF i > Len(d) THEN best
  ELSE MaxItem(d, i + 1, IF d[i].count > best.count THEN d[i] ELSE best)

\* max(...)[0] if the dict is not empty else None
MostCommon(d) == IF Len(d) = 0 THEN NoneStr ELSE MaxItem(d, 2, d[1]).key

\* round(total / n, 1) in tenths: Python rounds the quotient to the nearest
\* tenth, an exact half to the even one (a half arises only for quotients
\* that are multiples of a quarter, which floats hold exactly).
RoundTenths(total, n) ==
  LET q == (10 * total) \div n
      r == (10 * total) % n
  IN  IF 2 * r < n THEN q
      ELSE IF 2 * r > n THEN q + 1
      ELSE IF q % 2 = 0 THEN q ELSE q + 1

\* The snapshot computed from the entries es at the instant t.
Snapshot(es, t, longest_streak) ==
  [total_entries        |-> Len(es),
   total_words          |-> TotalWords(es),
   avg_words_per_entry  |-> IF Len(es) > 0
                            THEN RoundTenths(TotalWords(es), Len(es)) ELSE 0,
   most_common_mood     |-> MostCommon(MoodCounts(<<>>, es)),
   most_common_weather  |-> MostCommon(WeatherCounts(<<>>, es)),
   longest_streak       |-> longest_streak,
   current_streak       |-> calculate_current_streak(StreakDates(es), Day(t)),
   mood_distribution    |-> MoodCounts(<<>>, es),
   weather_distribution |-> WeatherCounts(<<>>, es)]

\* Mutant: no early return for an empty file, and the longest streak starts
\* from 1 without looking at the dates.
get_statistics_NoEarlyReturn(es, t) ==
  Snapshot(es, t, LongestLoop(StreakDates(es), 2, 1, 1))

\* get_statistics on the entries es at the instant t; the average is in
\* tenths of a word.
get_statistics(es, t) ==
  IF Len(es) = 0
  THEN [total_entries       |-> 0,
        total_words         |-> 0,
        avg_words_per_entry |-> 0,
        most_common_mood    |-> NoneStr,
        most_common_weather |-> NoneStr,
        longest_streak      |-> 0,
        current_streak      |-> 0]
  ELSE Snapshot(es, t, calculate_longest_streak(StreakDates(es)))

(***************************************************************************)
(* visualizer.py                                                           *)
(***************************************************************************)
\* f"{weather}_{mood}"
PairKey(weather, mood) == weather \o "_" \o mood

\* dict.get(key, 0)
Count(d, key) == IF key \in DOMAIN d THEN d[key] ELSE 0

\* Mutant: a pair seen again is set to 1, not incremented.
Increment_Reset(d, key) == (key :> 1) @@ d

\* d[key] = d.get(key, 0) + 1
Increment(d, key) == (key :> Count(d, key) + 1) @@ d

\* The inner loop of the pair count: the mood tags of one entry.
RECURSIVE CountTags(_, _, _)
CountTags(d, weather, tags) ==
  IF Len(tags) = 0 THEN d
  ELSE CountTags(Increment(d, PairKey(weather, Head(tags))), weather,
                 Tail(tags))

\* The outer loop of the pair count: weather_mood_pairs after the entries es.
RECURSIVE CountPairs(_, _)
CountPairs(d, es) ==
  IF Len(es) = 0 THEN d
  ELSE CountPairs(
         CountTags(d, Get(Get(Head(es), "weather", <<>>), "condition",
                          "unknown"),
                   Get(Head(es), "mood_tags", <<>>)),
         Tail(es))

\* Truth value of a condition: None and the empty string are false.
Truthy(c) == c # NoneStr /\ c # ""

\* sorted(set(condition of e for e in entries if condition of e))
GridWeathers(es) ==
  SortedStrings({es[i].weather.condition :
                   i \in {j \in DOMAIN es : Truthy(es[j].weather.condition)}})

\* sorted(all_moods)
GridMoods(es) ==
  SortedStrings(UNION {{es[i].mood_tags[k] : k \in DOMAIN es[i].mood_tags} :
                       i \in DOMAIN es})

\* str.title() of a condition whose underscores are replaced by blanks: a
\* letter after a blank or at the start in upper case ("a".."z" rank 40..65,
\* "A".."Z" 27 below), every other character as it is in lower case.
Title(s) ==
  [i \in DOMAIN s |->
     IF (i = 1 \/ s[i - 1] = " ") /\ Ord(s[i]) \in 40..65
     THEN Alphabet[Ord(s[i]) - 27] ELSE s[i]]

\* create_weather_mood_correlation: the heatmap's x, y and z, or the figure
\* that only says "No entries yet".
create_weather_mood_correlation(es) ==
  IF Len(es) = 0
  THEN [annotation |-> "No entries yet"]
  ELSE LET pairs == CountPairs(<<>>, es)
           weathers == GridWeathers(es)
           moodList == GridMoods(es)
       IN  [x |-> moodList,
            y |-> [w \in DOMAIN weathers |->
                     Join(Title(Replace(Chars[weathers[w]], "_", " ")))],
            weathers |-> weathers,
            z |-> [w \in DOMAIN weathers |->
                     [m \in DOMAIN moodList |->
                        Count(pairs, PairKey(weathers[w], moodList[m]))]]]

(***************************************************************************)
(* Inputs of the journal                                                   *)
(***************************************************************************)
\* The file holds at most MaxEntries entries.
MaxEntries == 3

\* The weather sample, mood tags, prompt and text of the entries whose dates
\* are what matters.
PlainSample == get_weather_manual(20, Chars["sunny"], FALSE).data

PlainTags == <<"energetic", "hopeful", "calm">>

PlainPrompt ==
  PromptText(PROMPT_TEMPLATES["energetic"][1], PlainSample.condition)

PlainText == Chars["HEAVY RAIN"]

\* The weather samples and mood tags of the entries of the correlation grid.
GridSamples ==
  {get_weather_manual(20, Chars[w], FALSE).data :
     w \in {"rainy", "sunny", "partly cloudy"}}

GridTags == {<<"reflective", "cozy">>, <<"energetic">>, <<>>}

(***************************************************************************)
(* Operations on the journal                                               *)
(***************************************************************************)
\* Time passes.
Tick ==
  /\ now < MaxNow
  /\ now' = now + 1
  /\ UNCHANGED <<pageVars, entries, ret, weatherVars, conditionVars,
                 moodVars, genVars>>

\* create_entry: the clock is read for the id, then after a more ticks for
\* the timestamp, then after b more for the date; the next call reads the
\* clock later than this one read the id.
CreateEntry(wd, mood_tags, prompt, journal_text, a, b) ==
  /\ Len(entries) < MaxEntries
  /\ now + a + b <= MaxNow
  /\ now + 1 <= MaxNow
  /\ LET entry == NewEntry(wd, mood_tags, prompt, journal_text,
                           now, now + a, now + a + b)
     IN  /\ entries' = create_entry(entries, entry)
         /\ ret' = [op |-> "create_entry", loaded |-> entries,
                    value |-> entry]
  /\ now' = IF a + b > 1 THEN now + a + b ELSE now + 1
  /\ UNCHANGED <<pageVars, weatherVars, conditionVars, moodVars, genVars>>

DeleteEntry(entry_id) ==
  /\ LET r == delete_entry(entries, entry_id)
     IN  /\ entries' = r.entries
         /\ ret' = [op |-> "delete_entry", entry_id |-> entry_id,
                    loaded |-> entries, value |-> r.value]
  /\ UNCHANGED <<pageVars, now, weatherVars, conditionVars, moodVars, genVars>>

\* get_statistics: the entries loaded, the day of the clock, the snapshot.
GetStatistics ==
  /\ ret' = [op |-> "get_statistics", loaded |-> entries,
             today |-> Day(now), value |-> get_statistics(entries, now)]
  /\ UNCHANGED <<pageVars, entries, now, weatherVars, conditionVars, moodVars, genVars>>

\* create_weather_mood_correlation on the entries of the file.
CreateCorrelation ==
  /\ ret' = [op |-> "create_weather_mood_correlation", loaded |-> entries,
             value |-> create_weather_mood_correlation(entries)]
  /\ UNCHANGED <<pageVars, entries, now, weatherVars, conditionVars, moodVars, genVars>>

\* The ids delete_entry is called with: those in the file and one that is not.
DeleteIds == {entries[i].id : i \in DOMAIN entries} \cup {0 - 1}

(***************************************************************************)
(* SpecJournal: entries are created and deleted as the days pass, and the  *)
(* statistics are taken                                                    *)
(***************************************************************************)
InitJournal ==
  /\ IdleJournal
  /\ IdleWeather /\ IdleCondition /\ IdleMoods /\ IdleGen /\ IdlePage

NextJournal ==
  \/ Tick
  \/ \E a, b \in 0..1 :
       CreateEntry(PlainSample, PlainTags, PlainPrompt, PlainText, a, b)
  \/ \E entry_id \in DeleteIds : DeleteEntry(entry_id)
  \/ GetStatistics

SpecJournal == InitJournal /\ [][NextJournal]_vars

(***************************************************************************)
(* SpecGrid: entries of several conditions and mood tags are created, and  *)
(* the correlation grid is drawn                                           *)
(***************************************************************************)
NextGrid ==
  \/ \E wd \in GridSamples, mood_tags \in GridTags :
       CreateEntry(wd, mood_tags, PlainPrompt, PlainText, 0, 0)
  \/ CreateCorrelation

SpecGrid == InitJournal /\ [][NextGrid]_vars

(***************************************************************************)
(* SpecStreak: the statistics are taken of a store written earlier, at any *)
(* reading of the wall clock.  The store outlives the process              *)
(* (_ensure_data_file keeps an existing file), its entries are in any      *)
(* order of dates with any number per day, and datetime.now() is the wall  *)
(* clock, which can read earlier than it did when an entry was written.    *)
(***************************************************************************)
\* The store of entries written on the given days, in that order.
StoredOn(days) ==
  [i \in DOMAIN days |->
     NewEntry(PlainSample, PlainTags, PlainPrompt, PlainText,
              days[i] * TicksPerDay, days[i] * TicksPerDay,
              days[i] * TicksPerDay)]

InitStreak ==
  /\ \E n \in 0..MaxEntries :
       \E days \in [1..n -> 0..MaxDay] : entries = StoredOn(days)
  /\ now \in 0..MaxNow
  /\ ret = None
  /\ IdleWeather /\ IdleCondition /\ IdleMoods /\ IdleGen /\ IdlePage

NextStreak == GetStatistics

SpecStreak == InitStreak /\ [][NextStreak]_vars

(***************************************************************************)
(* Claims on the statistics and the correlation grid                       *)
(***************************************************************************)
\* The operation whose value ret holds.
RetOp == IF "op" \in DOMAIN ret THEN ret.op ELSE "none"

\* The days (ordinals) of the entries that get_statistics loaded.
LoadedDays ==
  {fromisoformat(ret.loaded[i].date) : i \in DOMAIN ret.loaded}

\* C6: the current streak is the number of consecutive offsets i = 0, 1, 2,
\* ... for which the day today - i is among the distinct entry dates, up to
\* the first missing offset; it is 0 when today itself is absent.
C6_CurrentStreakCountsBackFromToday ==
  RetOp = "get_statistics" =>
    LET n == ret.value.current_streak
    IN  /\ n \in Nat
        /\ \A i \in 0..(n - 1) : (ret.today - i) \in LoadedDays
        /\ (ret.today - n) \notin LoadedDays

\* The days from first on, n of them, are all entry dates.
IsRun(first, n) == \A i \in 0..(n - 1) : (first + i) \in LoadedDays

\* C7: the longest streak is the length of the longest run of distinct entry
\* dates in which each consecutive pair differs by exactly one calendar day;
\* 0 for no dates, 1 for a single date.
C7_LongestStreakIsLongestRun ==
  RetOp = "get_statistics" =>
    LET n == ret.value.longest_streak
    IN  /\ n \in Nat
        /\ n = 0 <=> LoadedDays = {}
        /\ n > 0 => \E first \in LoadedDays : IsRun(first, n)
        /\ ~ \E first \in LoadedDays : IsRun(first, n + 1)
        /\ Cardinality(LoadedDays) = 1 => n = 1

\* Scenario A: the dates are the three days before today, today is absent.
C7_Witness ==
  /\ RetOp = "get_statistics"
  /\ ret.today >= 3
  /\ LoadedDays = {ret.today - 3, ret.today - 2, ret.today - 1}
  /\ ret.value.longest_streak = 3
  /\ ret.value.current_streak = 0

\* The sum of a list of numbers.
RECURSIVE SumOf(_)
SumOf(s) == IF Len(s) = 0 THEN 0 ELSE Head(s) + SumOf(Tail(s))

\* The list s holds exactly the strings of the set S, in ascending order.
IsSortedListOf(s, S) ==
  /\ {s[i] : i \in DOMAIN s} = S
  /\ \A i, j \in DOMAIN s : i < j => LexLess(Chars[s[i]], Chars[s[j]])

\* C10: the rows of the grid are the distinct weather conditions observed,
\* its columns the distinct mood tags observed, both sorted
\* lexicographically; each cell is the number of mood-tag occurrences on
\* entries with that condition; the cells sum to the number of mood tags
\* carried by all entries.
C10_GridCountsEveryTagOnce ==
  (RetOp = "create_weather_mood_correlation" /\ Len(ret.loaded) > 0) =>
    LET es == ret.loaded
        grid == ret.value
    IN  /\ IsSortedListOf(grid.weathers,
                          {es[i].weather.condition : i \in DOMAIN es})
        /\ IsSortedListOf(grid.x,
                          UNION {{es[i].mood_tags[k] :
                                    k \in DOMAIN es[i].mood_tags} :
                                 i \in DOMAIN es})
        /\ DOMAIN grid.z = DOMAIN grid.weathers
        /\ \A w \in DOMAIN grid.z :
             /\ DOMAIN grid.z[w] = DOMAIN grid.x
             /\ \A m \in DOMAIN grid.x :
                  grid.z[w][m] =
                    Cardinality(
                      {p \in (DOMAIN es) \X (1..3) :
                         /\ es[p[1]].weather.condition = grid.weathers[w]
                         /\ p[2] \in DOMAIN es[p[1]].mood_tags
                         /\ es[p[1]].mood_tags[p[2]] = grid.x[m]})
        /\ SumOf([w \in DOMAIN grid.z |-> SumOf(grid.z[w])])
             = SumOf([i \in DOMAIN es |-> Len(es[i].mood_tags)])

\* The spec's example: a rainy entry tagged reflective and cozy, and a sunny
\* entry tagged energetic.
C10_Witness ==
  /\ RetOp = "create_weather_mood_correlation"
  /\ Len(ret.loaded) = 2
  /\ \E i, j \in DOMAIN ret.loaded :
       /\ ret.loaded[i].weather.condition = "rainy"
       /\ ret.loaded[i].mood_tags = <<"reflective", "cozy">>
       /\ ret.loaded[j].weather.condition = "sunny"
       /\ ret.loaded[j].mood_tags = <<"energetic">>
  /\ ret.value.weathers = <<"rainy", "sunny">>
  /\ ret.value.x = <<"cozy", "energetic", "reflective">>
  /\ ret.value.z = <<<<1, 0, 1>>, <<0, 1, 0>>>>

(***************************************************************************)
(* SpecStats: entries of several conditions and mood tags are created, and *)
(* the statistics are taken                                                *)
(***************************************************************************)
NextStats ==
  \/ \E wd \in GridSamples, mood_tags \in GridTags :
       CreateEntry(wd, mood_tags, PlainPrompt, PlainText, 0, 0)
  \/ GetStatistics

SpecStats == InitJournal /\ [][NextStats]_vars

\* The mood tags met when the entries es are scanned in the order of the
\* file, the tags of one entry in their listed order.
RECURSIVE TagScan(_)
TagScan(es) ==
  IF Len(es) = 0 THEN <<>> ELSE Head(es).mood_tags \o TagScan(Tail(es))

\* The conditions met when the entries es are scanned in the order of the
\* file.
ConditionScan(es) == [i \in DOMAIN es |-> es[i].weather.condition]

\* The number of times x occurs in the scan s, and where it occurs first.
Occurrences(s, x) == Cardinality({i \in DOMAIN s : s[i] = x})

FirstAt(s, x) == CHOOSE i \in DOMAIN s : s[i] = x /\ \A j \in 1..(i - 1) : s[j] # x

\* x occurs in s, nothing occurs more often, and whatever occurs as often
\* is met first no earlier than x.
IsFirstMostCommon(s, x) ==
  /\ \E i \in DOMAIN s : s[i] = x
  /\ \A i \in DOMAIN s :
       \/ Occurrences(s, s[i]) < Occurrences(s, x)
       \/ /\ Occurrences(s, s[i]) = Occurrences(s, x)
          /\ FirstAt(s, x) <= FirstAt(s, s[i])

\* C11: for a non-empty store, most_common_mood and most_common_weather are
\* a tag (a condition) with the greatest number of occurrences and, among
\* those with that number, the one met first when the entries are scanned in
\* the order of the store and the tags of an entry in their listed order;
\* most_common_mood is None when no entry carries a tag.
C11_MostCommonIsFirstMaximum ==
  (RetOp = "get_statistics" /\ Len(ret.loaded) > 0) =>
    /\ IF Len(TagScan(ret.loaded)) = 0
       THEN ret.value.most_common_mood = NoneStr
       ELSE IsFirstMostCommon(TagScan(ret.loaded),
                              ret.value.most_common_mood)
    /\ IsFirstMostCommon(ConditionScan(ret.loaded),
                         ret.value.most_common_weather)

\* Ties that the lexicographically smallest name does not win: reflective
\* is met before cozy and as often, sunny before rainy and as often.
C11_Witness ==
  /\ RetOp = "get_statistics"
  /\ ret.value.most_common_mood = "reflective"
  /\ Occurrences(TagScan(ret.loaded), "cozy")
       = Occurrences(TagScan(ret.loaded), "reflective")
  /\ ret.value.most_common_weather = "sunny"
  /\ Occurrences(ConditionScan(ret.loaded), "rainy")
       = Occurrences(ConditionScan(ret.loaded), "sunny")

\* C12: get_statistics over an empty store returns a snapshot with
\* total_entries, total_words, the average words per entry and both streaks
\* 0, and most_common_mood and most_common_weather None.
C12_EmptyStoreGivesZeroSnapshot ==
  (RetOp = "get_statistics" /\ Len(ret.loaded) = 0) =>
    /\ ret.value.total_entries = 0
    /\ ret.value.total_words = 0
    /\ ret.value.avg_words_per_entry = 0
    /\ ret.value.most_common_mood = NoneStr
    /\ ret.value.most_common_weather = NoneStr
    /\ ret.value.longest_streak = 0
    /\ ret.value.current_streak = 0

\* The statistics were taken of an empty store.
C12_Witness ==
  /\ RetOp = "get_statistics"
  /\ Len(ret.loaded) = 0
  /\ ret.value.total_entries = 0

(***************************************************************************)
(* SpecApi: get_weather_api is called, with and without an API key, on a  *)
(* cache file that earlier runs have written and while the provider        *)
(* answers or cannot be reached                                            *)
(***************************************************************************)
Cities == {"London", "Paris"}

\* What the provider answers with.
Responses(temps, descriptions) ==
  [temp : temps, description : descriptions, humidity : {50},
   wind_speed : {3}]

ApiResponses ==
  Responses({5, 20},
            {TextOf(<<"light", "rain">>), TextOf(<<"overcast">>),
             TextOf(<<"clear">>)})

\* The cache files earlier runs can have left: for some of the cities, the
\* sample of a fetch.
PersistedCaches ==
  UNION {{[city \in S |-> ApiSample(city, f[city], 0)] :
            f \in [S -> ApiResponses]} :
         S \in SUBSET Cities}

\* get_weather_api(city) while the provider would give response.
GetWeatherApi(city, response) ==
  /\ LET r == get_weather_api(api_key, cache, city, response, now)
     IN  /\ cache' = r.cache
         /\ fetched' = IF api_key # NoneStr /\ api_key # ""
                          /\ Succeeded(response)
                       THEN (city :> r.value) @@ fetched
                       ELSE fetched
         /\ api_call' = [city |-> city, response |-> response,
                         cached |-> cache, fetched |-> fetched,
                         value |-> r.value]
  /\ UNCHANGED <<pageVars, api_key, manual_args, first_classified, weather_data,
                 conditionVars, moodVars, genVars, journalVars>>

InitApi ==
  /\ api_key \in {NoneStr, "0123456789abcdef"}
  /\ cache \in PersistedCaches
  /\ fetched = cache
  /\ api_call = None
  /\ manual_args = None /\ first_classified = Unset /\ weather_data = None
  /\ IdleCondition /\ IdleMoods /\ IdleGen /\ IdleJournal /\ IdlePage

NextApi ==
  \E city \in Cities, response \in ApiResponses \cup {Unreachable} :
    GetWeatherApi(city, response)

SpecApi == InitApi /\ [][NextApi]_vars

\* get_weather_api was called.
ApiCalled == "city" \in DOMAIN api_call

\* C13: get_weather_api returns None only when no live call succeeded and
\* the cache holds no sample for the city; whenever the cache holds a sample
\* for the city, the caller does not receive None.
C13_NoneOnlyWithoutCachedSample ==
  ApiCalled =>
    /\ api_call.value = None =>
         /\ ~ (api_key # NoneStr /\ Succeeded(api_call.response))
         /\ api_call.city \notin DOMAIN api_call.cached
    /\ api_call.city \in DOMAIN api_call.cached => api_call.value # None

\* C14: a call during which the provider cannot be reached returns the
\* sample of the latest successful fetch for the same city, and None for a
\* city never fetched successfully.
C14_FallbackIsLatestFetchOfCity ==
  (ApiCalled /\ ~ Succeeded(api_call.response)) =>
    IF api_call.city \in DOMAIN api_call.fetched
    THEN /\ api_call.value = api_call.fetched[api_call.city]
         /\ api_call.value.city = api_call.city
    ELSE api_call.value = None

(***************************************************************************)
(* SpecApiSample: one fetch with an API key that the provider answers,    *)
(* for every description                                                   *)
(***************************************************************************)
InitApiSample ==
  /\ api_key = "0123456789abcdef"
  /\ cache = <<>>
  /\ fetched = <<>>
  /\ api_call = None
  /\ manual_args = None /\ first_classified = Unset /\ weather_data = None
  /\ IdleCondition /\ IdleMoods /\ IdleGen /\ IdleJournal /\ IdlePage

NextApiSample ==
  /\ api_call = None
  /\ \E response \in Responses({5, 20}, Descriptions) :
       GetWeatherApi("London", response)

SpecApiSample == InitApiSample /\ [][NextApiSample]_vars

\* C15: the condition and the temperature category of the sample that
\* get_weather_api builds from a response with temperature t and
\* description d are those of get_weather_manual(t, d, p), p being the
\* precipitation flag derived from d.
C15_ApiClassifiesAsManual ==
  (ApiCalled /\ Succeeded(api_call.response) /\ api_call.value # None) =>
    LET manual == get_weather_manual(api_call.response.temp,
                                     api_call.response.description,
                                     api_call.value.precipitation).data
    IN  /\ api_call.value.condition = manual.condition
        /\ api_call.value.temperature_category = manual.temperature_category

(***************************************************************************)
(* SpecStore: entries are created, updated and deleted as time passes      *)
(***************************************************************************)
\* update_entry: the clock is read once, for updated_at.
UpdateEntry(entry_id, updated_text) ==
  /\ LET r == update_entry(entries, entry_id, updated_text, now)
     IN  /\ entries' = r.entries
         /\ ret' = [op |-> "update_entry", entry_id |-> entry_id,
                    updated_text |-> updated_text, loaded |-> entries,
                    value |-> r.value]
  /\ UNCHANGED <<pageVars, now, weatherVars, conditionVars, moodVars, genVars>>

\* A text of three words with blanks, a tab and line ends around them.
PaddedText ==
  <<" ">> \o Chars["hail"] \o <<" ", "\n">> \o Chars["light"]
          \o <<"\t">> \o Chars["rain"] \o <<"\n">>

\* The clock of the store's runs reads at most StoreTicks.
StoreTicks == 3

NextStore ==
  \/ Tick /\ now' <= StoreTicks
  \/ /\ CreateEntry(PlainSample, PlainTags, PlainPrompt, PlainText, 0, 0)
     /\ now' <= StoreTicks
  \/ \E entry_id \in DeleteIds : UpdateEntry(entry_id, PaddedText)
  \/ \E entry_id \in DeleteIds : DeleteEntry(entry_id)

SpecStore == InitJournal /\ [][NextStore]_vars

(***************************************************************************)
(* SpecWallClock: the same, while the wall clock can also be set back      *)
(* (datetime.now() is local time: the end of daylight saving time, a       *)
(* change of time zone, a correction of the clock)                         *)
(***************************************************************************)
ClockBack ==
  /\ \E t \in 0..(now - 1) : now' = t
  /\ UNCHANGED <<pageVars, entries, ret, weatherVars, conditionVars,
                 moodVars, genVars>>

NextWallClock ==
  \/ NextStore
  \/ ClockBack

SpecWallClock == InitJournal /\ [][NextWallClock]_vars

(***************************************************************************)
(* Claims on the store                                                     *)
(***************************************************************************)
\* C16: immediately after create_entry, get_all_entries() returns the new
\* entry at position 0 followed by exactly the entries stored before, in
\* their previous order.
C16_CreateInsertsAtFront ==
  RetOp = "create_entry" =>
    get_all_entries(entries, None) = <<ret.value>> \o ret.loaded

\* An entry was created in a store that held two.
C16_Witness ==
  /\ RetOp = "create_entry"
  /\ Len(ret.loaded) = 2
  /\ Len(entries) = 3
  /\ entries[1] = ret.value
  /\ entries[3] = ret.loaded[2]

\* C17: no two stored entries share an id, and an entry created later has a
\* strictly greater id than every entry created earlier: the ids strictly
\* decrease from the front of the store to the back.
C17_IdsStrictlyDecreaseFrontToBack ==
  \A i, j \in DOMAIN entries : i < j => entries[i].id > entries[j].id

\* The entries of the list es whose id is not entry_id, in their order.
Others(es, entry_id) == SelectSeq(es, LAMBDA e : e.id # entry_id)

UpdatedFields == {"text", "word_count", "updated_at"}

Tokens(text) ==
  Cardinality({i \in DOMAIN text :
                 /\ text[i] \notin {" ", "\t", "\n"}
                 /\ (i = Len(text) \/ text[i + 1] \in {" ", "\t", "\n"})})

\* C20: every stored entry's word_count is the number of
\* whitespace-delimited tokens of its current text.
C20_WordCountMatchesText ==
  \A i \in DOMAIN entries : entries[i].word_count = Tokens(entries[i].text)

\* The store holds an entry as created and an entry whose text was updated
\* to one with another number of words.
C20_Witness ==
  \E i, j \in DOMAIN entries :
    /\ "updated_at" \in DOMAIN entries[i]
    /\ entries[i].text = PaddedText
    /\ entries[i].word_count = 3
    /\ "updated_at" \notin DOMAIN entries[j]
    /\ entries[j].word_count = 2

(***************************************************************************)
(* prompt_generator.py: generate_prompts as one call                       *)
(***************************************************************************)
\* The walk over all_moods from index i on (lines 75-105): every list and
\* used-template set that the random choices can leave.
RECURSIVE WalkOutcomes(_, _, _, _, _)
WalkOutcomes(wd, num_prompts, i, ps, used) ==
  LET m == determine_moods(wd)
      moods_list == <<m.primary>> \o m.secondary
      condition == Get(wd, "condition", "partly_cloudy")
  IN  IF i > Len(moods_list) \/ WalkFull(ps, num_prompts)
      THEN {[prompts |-> ps, used |-> used]}
      ELSE LET mood == moods_list[i]
           IN  IF mood \notin DOMAIN PROMPT_TEMPLATES
               THEN WalkOutcomes(wd, num_prompts, i + 1, ps, used)
               ELSE IF Len(AvailableTemplates(mood, used)) = 0
               THEN WalkOutcomes(wd, num_prompts, i + 1, ps, used)
               ELSE UNION
                      {WalkOutcomes(
                         wd, num_prompts, i + 1,
                         Append(ps, [mood       |-> mood,
                                     text       |-> PromptText(
                                                      AvailableTemplates(mood, used)[k],
                                                      condition),
                                     is_primary |-> mood = m.primary]),
                         used \cup {AvailableTemplates(mood, used)[k]}) :
                       k \in DOMAIN AvailableTemplates(mood, used)}

\* The top-up loop (lines 108-125): every list it can leave.
RECURSIVE TopUpOutcomes(_, _, _, _)
TopUpOutcomes(wd, num_prompts, ps, used) ==
  LET primary == determine_moods(wd).primary
      condition == Get(wd, "condition", "partly_cloudy")
  IN  IF Len(ps) < num_prompts /\ primary \in DOMAIN PROMPT_TEMPLATES
      THEN IF Len(Available(primary, used)) = 0
           THEN {ps}
           ELSE UNION
                  {TopUpOutcomes(
                     wd, num_prompts,
                     Append(ps, [mood       |-> primary,
                                 text       |-> PromptText(
                                                  Available(primary, used)[k],
                                                  condition),
                                 is_primary |-> TRUE]),
                     used \cup {Available(primary, used)[k]}) :
                   k \in DOMAIN Available(primary, used)}
      ELSE {ps}

\* Every list generate_prompts(weather_data, num_prompts) can return.
generate_prompts(wd, num_prompts) ==
  UNION {Shuffles(ps) :
           ps \in UNION {TopUpOutcomes(wd, num_prompts, w.prompts, w.used) :
                           w \in WalkOutcomes(wd, num_prompts, 1, <<>>, {})}}

(***************************************************************************)
(* app.py: the New Entry page                                              *)
(***************************************************************************)
\* The options of the condition selectbox (lines 119-122).
FormOptions ==
  {"Sunny", "Partly Cloudy", "Cloudy", "Rainy", "Stormy", "Snowy", "Foggy",
   "Windy"}

\* condition.lower().replace(' ', '_') of the Set Weather handler.
FormCondition(option) == Replace(Lower(Chars[option]), " ", "_")

\* The sample the Set Weather handler records (lines 127-132).
SetWeatherSample(temperature, option, precipitation) ==
  get_weather_manual(temperature, FormCondition(option), precipitation).data

\* secondary_moods[:2]
FirstTwo(s) == SubSeq(s, 1, IF Len(s) < 2 THEN Len(s) ELSE 2)

\* Mutant: the tags hold every secondary mood.
MoodTags_All(wd) ==
  <<determine_moods(wd).primary>> \o determine_moods(wd).secondary

\* mood_tags of the Save handler (lines 242-246).
MoodTags(wd) ==
  <<determine_moods(wd).primary>> \o FirstTwo(determine_moods(wd).secondary)

\* not journal_text.strip(): the text holds whitespace only.
Blank(text) == \A i \in DOMAIN text : text[i] \in Whitespace

\* One temperature of each category.
FormTemperatures ==
  {CHOOSE t \in Temperatures : classify_temperature(t) = c :
     c \in TempCategories}

\* Texts typed into the entry's text area.
FormTexts == {PlainText, <<" ", "\n">>}

\* The page asks generate_prompts for PagePrompts prompts (app.py asks for 5;
\* the number is a bound here, which keeps the lists of prompts few).
PagePrompts == 1

\* The page's call of generate_prompts (lines 164-168).
PageGenerate(wd) ==
  /\ current_prompts' \in generate_prompts(wd, PagePrompts)
  /\ generated_from' = wd

\* A run of the page with Set Weather pressed: the sample is recorded, and
\* prompts are generated when the session holds none.
SetWeather(temperature, option, precipitation) ==
  /\ entries = <<>>
  /\ LET wd == SetWeatherSample(temperature, option, precipitation)
     IN  /\ current_weather' = wd
         /\ IF current_prompts = <<>>
            THEN PageGenerate(wd)
            ELSE UNCHANGED <<current_prompts, generated_from>>
  /\ UNCHANGED <<selected_prompt, selected_from, weatherVars, conditionVars,
                 moodVars, genVars, journalVars>>

\* A run with Generate Prompts pressed.
GeneratePrompts ==
  /\ current_weather # None
  /\ PageGenerate(current_weather)
  /\ UNCHANGED <<current_weather, selected_prompt, selected_from,
                 weatherVars, conditionVars, moodVars, genVars, journalVars>>

\* A run with the Select button of prompt i pressed, and its rerun.
SelectPrompt(i) ==
  /\ current_weather # None
  /\ i \in DOMAIN current_prompts
  /\ selected_prompt' = [mood |-> current_prompts[i].mood,
                         text |-> current_prompts[i].text]
  /\ selected_from' = generated_from
  /\ UNCHANGED <<current_weather, current_prompts, generated_from,
                 weatherVars, conditionVars, moodVars, genVars, journalVars>>

\* A run with Save Entry pressed (lines 241-262); the button is disabled
\* while the text is blank and shown only once a prompt is selected.
SaveEntry(journal_text) ==
  /\ selected_prompt # None
  /\ ~Blank(journal_text)
  /\ LET entry == NewEntry(current_weather, MoodTags(current_weather),
                           selected_prompt.text, journal_text, now, now, now)
     IN  /\ entries' = create_entry(entries, entry)
         /\ ret' = [op |-> "save_entry", loaded |-> entries,
                    weather |-> current_weather,
                    prompt_from |-> selected_from, value |-> entry]
  /\ now' = now + 1
  /\ current_weather' = None
  /\ current_prompts' = <<>>
  /\ selected_prompt' = None
  /\ generated_from' = None
  /\ selected_from' = None
  /\ UNCHANGED <<weatherVars, conditionVars, moodVars, genVars>>

\* A run with Fetch Weather pressed (lines 137-145) while the provider would
\* give response: a sample is recorded when get_weather_api returns one, and
\* prompts are generated when the session then holds a sample and no prompts.
FetchWeather(city, response) ==
  /\ entries = <<>>
  /\ LET r == get_weather_api(api_key, cache, city, response, now)
         wd == IF r.value # None THEN r.value ELSE current_weather
     IN  /\ cache' = r.cache
         /\ fetched' = IF api_key # NoneStr /\ api_key # ""
                          /\ Succeeded(response)
                       THEN (city :> r.value) @@ fetched
                       ELSE fetched
         /\ api_call' = [city |-> city, response |-> response,
                         cached |-> cache, fetched |-> fetched,
                         value |-> r.value]
         /\ current_weather' = wd
         /\ IF wd # None /\ current_prompts = <<>>
            THEN PageGenerate(wd)
            ELSE UNCHANGED <<current_prompts, generated_from>>
  /\ UNCHANGED <<selected_prompt, selected_from, api_key, manual_args,
                 first_classified, weather_data, conditionVars, moodVars,
                 genVars, journalVars>>

InitPage ==
  /\ IdlePage
  /\ IdleWeather /\ IdleCondition /\ IdleMoods /\ IdleGen /\ IdleJournal

(***************************************************************************)
(* SpecSession: the weather is set once, from every input of the form or   *)
(* from a fetch, a prompt is selected and the entry is saved               *)
(***************************************************************************)
\* The provider's answers: a temperature of each category, and a description
\* of the condition that no option of the form classifies as.
FetchResponses ==
  Responses(FormTemperatures, {TextOf(<<"scattered clouds">>)})

InitSession ==
  /\ api_key \in {NoneStr, "0123456789abcdef"}
  /\ cache = <<>> /\ fetched = <<>> /\ api_call = None
  /\ manual_args = None /\ first_classified = Unset /\ weather_data = None
  /\ IdlePage
  /\ IdleCondition /\ IdleMoods /\ IdleGen /\ IdleJournal

FirstSetWeather(temperature, option, precipitation) ==
  /\ current_weather = None
  /\ SetWeather(temperature, option, precipitation)

FirstFetchWeather(city, response) ==
  /\ current_weather = None
  /\ FetchWeather(city, response)

NextSession ==
  \/ \E t \in FormTemperatures, o \in FormOptions, p \in BOOLEAN :
       FirstSetWeather(t, o, p)
  \/ \E response \in FetchResponses \cup {Unreachable} :
       FirstFetchWeather("London", response)
  \/ \E i \in 1..PagePrompts : SelectPrompt(i)
  \/ \E text \in FormTexts : SaveEntry(text)

SpecSession == InitSession /\ [][NextSession]_vars

(***************************************************************************)
(* SpecPage: every order of the page's buttons, over a few form inputs     *)
(***************************************************************************)
PageTemperatures == {5, 30}

PageOptions == {"Sunny", "Rainy"}

NextPage ==
  \/ \E t \in PageTemperatures, o \in PageOptions : SetWeather(t, o, FALSE)
  \/ GeneratePrompts
  \/ \E i \in 1..PagePrompts : SelectPrompt(i)
  \/ \E text \in FormTexts : SaveEntry(text)

SpecPage == InitPage /\ [][NextPage]_vars

(***************************************************************************)
(* Claims on the New Entry page                                            *)
(***************************************************************************)
\* C21: an entry saved through the New Entry page carries at most 3 mood
\* tags without duplicates; the first is the primary mood resolved from the
\* weather sample of the entry, the others are the first secondary moods in
\* the resolver's order.
C21_SavedTagsArePrimaryThenFirstSecondaries ==
  RetOp = "save_entry" =>
    LET tags == ret.value.mood_tags
        m == determine_moods(ret.weather)
    IN  /\ Len(tags) <= 3
        /\ Len(tags) >= 1
        /\ \A i, j \in DOMAIN tags : i # j => tags[i] # tags[j]
        /\ tags[1] = m.primary
        /\ Len(tags) - 1 <= Len(m.secondary)
        /\ Len(tags) = 3 \/ Len(tags) - 1 = Len(m.secondary)
        /\ \A i \in 2..Len(tags) : tags[i] = m.secondary[i - 1]

\* A saved entry whose sample resolves to more than two secondary moods.
C21_Witness ==
  /\ RetOp = "save_entry"
  /\ Len(determine_moods(ret.weather).secondary) > 2
  /\ Len(ret.value.mood_tags) = 3

\* C25: with precipitation unchecked, the sample that Set Weather records has
\* as its condition the selected option of the form: the option's text in
\* lower case with underscores for spaces classifies back to itself.
C25_FormOptionKeepsItsCondition ==
  \A o \in FormOptions :
    (/\ current_weather # None
     /\ current_weather.source = "manual"
     /\ ~current_weather.precipitation
     /\ current_weather.condition_raw = FormCondition(o))
    => current_weather.condition = Join(FormCondition(o))

\* Set Weather has recorded option o with precipitation unchecked.
FormRecorded(o) ==
  /\ current_weather # None
  /\ current_weather.source = "manual"
  /\ ~current_weather.precipitation
  /\ current_weather.condition_raw = FormCondition(o)

\* The seven options other than Partly Cloudy keep their condition.
C25_OtherOptionsKeepTheirCondition ==
  \A o \in FormOptions \ {"Partly Cloudy"} :
    FormRecorded(o) => current_weather.condition = Join(FormCondition(o))

\* Partly Cloudy is recorded as cloudy.
C25_PartlyCloudyIsCloudy ==
  FormRecorded("Partly Cloudy") => current_weather.condition = "cloudy"

\* C26: over every sequence of the page's actions, the prompt stored in a
\* saved entry was generated from the weather sample that the entry embeds
\* and that its mood tags were derived from.
C26_PromptGeneratedFromSavedWeather ==
  RetOp = "save_entry" => ret.prompt_from = ret.weather

\* The prompts on display were generated from the sample on display.
PromptsFollowWeather ==
  current_prompts # <<>> => generated_from = current_weather

(***************************************************************************)
(* SpecListing: the store's operations and get_all_entries with and        *)
(* without a limit                                                         *)
(***************************************************************************)
\* The limits of the calls: none, and 0..MaxEntries + 1.
Limits == {None} \cup {Some(n) : n \in 0..(MaxEntries + 1)}

GetAllEntries(limit) ==
  /\ ret' = [op |-> "get_all_entries", limit |-> limit, loaded |-> entries,
             value |-> get_all_entries(entries, limit)]
  /\ UNCHANGED <<pageVars, entries, now, weatherVars, conditionVars,
                 moodVars, genVars>>

NextListing ==
  \/ NextStore
  \/ \E limit \in Limits : GetAllEntries(limit)

SpecListing == InitJournal /\ [][NextListing]_vars

\* The lesser of two numbers.
Min(a, b) == IF a < b THEN a ELSE b

\* C22: get_all_entries(limit) treats limit as a maximum: for every limit
\* >= 0 and store of n entries it returns the first min(limit, n) entries in
\* store order; without a limit it returns all entries.
C22_LimitIsAMaximum ==
  RetOp = "get_all_entries" =>
    IF ret.limit = None
    THEN ret.value = ret.loaded
    ELSE ret.limit.int >= 0 =>
           ret.value = SubSeq(ret.loaded, 1,
                              Min(ret.limit.int, Len(ret.loaded)))

\* A positive limit is a maximum.
C22_PositiveLimitIsAMaximum ==
  (RetOp = "get_all_entries" /\ ret.limit # None /\ ret.limit.int > 0) =>
    ret.value = SubSeq(ret.loaded, 1, Min(ret.limit.int, Len(ret.loaded)))

\* The limit 0 returns every entry.
C22_LimitZeroReturnsAll ==
  (RetOp = "get_all_entries" /\ ret.limit = Some(0)) =>
    ret.value = ret.loaded

(***************************************************************************)
(* SpecFaults: the store's operations while a read or a write of the       *)
(* entries file can fail during create_entry                               *)
(***************************************************************************)
\* _load_entries: the content of the file, or [] on any exception.
load_entries(file, readable) == IF readable THEN file ELSE <<>>

\* _save_entries: the file afterwards; an exception leaves it as it was.
save_entries(file, es, writable) == IF writable THEN es ELSE file

\* create_entry while the file can or cannot be read and written.
CreateEntryIO(wd, mood_tags, prompt, journal_text, readable, writable) ==
  /\ Len(entries) < MaxEntries
  /\ now + 1 <= StoreTicks
  /\ LET loaded == load_entries(entries, readable)
         entry == NewEntry(wd, mood_tags, prompt, journal_text, now, now, now)
     IN  /\ entries' = save_entries(entries, create_entry(loaded, entry),
                                    writable)
         /\ ret' = [op |-> "create_entry", stored |-> entries,
                    loaded |-> loaded, readable |-> readable,
                    writable |-> writable, value |-> entry]
  /\ now' = now + 1
  /\ UNCHANGED <<pageVars, weatherVars, conditionVars, moodVars, genVars>>

NextFaults ==
  \/ NextStore
  \/ \E readable, writable \in BOOLEAN :
       CreateEntryIO(PlainSample, PlainTags, PlainPrompt, PlainText,
                     readable, writable)

SpecFaults == InitJournal /\ [][NextFaults]_vars

\* C27: create_entry never discards previously stored entries, also when
\* reading the entries file fails during the call.
C27_CreateKeepsStoredEntries ==
  (RetOp = "create_entry" /\ "stored" \in DOMAIN ret) =>
    \A i \in DOMAIN ret.stored :
      \E j \in DOMAIN entries : entries[j] = ret.stored[i]

\* While the file can be read, create_entry keeps every stored entry.
C27_ReadableCreateKeepsStoredEntries ==
  (RetOp = "create_entry" /\ "stored" \in DOMAIN ret /\ ret.readable) =>
    \A i \in DOMAIN ret.stored :
      \E j \in DOMAIN entries : entries[j] = ret.stored[i]

(***************************************************************************)
(* Claims on the clock reads of create_entry and on the streaks            *)
(***************************************************************************)
\* C30: an entry created by create_entry has as its date the calendar day of
\* its own id and timestamp, also when the clock advances, past midnight
\* too, between the separate clock reads.
C30_DateIsDayOfIdAndTimestamp ==
  RetOp = "create_entry" =>
    /\ ret.value.date = strftime(ret.value.id)
    /\ ret.value.date = strftime(ret.value.timestamp)

\* C29: in every statistics snapshot, for every collection of entries and
\* every today, current_streak is at most longest_streak.
C29_CurrentStreakAtMostLongest ==
  RetOp = "get_statistics" =>
    ret.value.current_streak <= ret.value.longest_streak

\* A snapshot whose current streak counts more than one day.
C29_Witness ==
  /\ RetOp = "get_statistics"
  /\ ret.value.current_streak >= 2
  /\ ret.value.current_streak = ret.value.longest_streak

(***************************************************************************)
(* Further claims on the mood resolver and the prompt generator            *)
(***************************************************************************)
\* The row of the weather table for a condition.
TableRow(condition) ==
  WEATHER_MOOD_MAP[IF condition \in DOMAIN WEATHER_MOOD_MAP
                   THEN condition ELSE "partly_cloudy"]

\* The mood list of the temperature table for a category.
TableTempMoods(category) ==
  LET rows == {i \in DOMAIN TEMP_MODIFIERS :
                 TEMP_MODIFIERS[i].category = category}
  IN  IF rows = {} THEN <<>>
      ELSE TEMP_MODIFIERS[CHOOSE i \in rows : TRUE].moods

\* The items of the list s, in order, at the positions in the set keep.
RECURSIVE Kept(_, _, _)
Kept(s, keep, i) ==
  IF i > Len(s) THEN <<>>
  ELSE (IF i \in keep THEN <<s[i]>> ELSE <<>>) \o Kept(s, keep, i + 1)

\* C23: for every condition and temperature category, the secondary list of
\* determine_moods is the weather table's secondary list in table order,
\* followed by the moods of the temperature list, in table order, that are
\* neither already present nor equal to the primary mood; a condition that
\* the table does not map uses the row of partly_cloudy.
C23_SecondaryIsTableThenTemperatureMoods ==
  (/\ moods # None
   /\ "condition" \in DOMAIN sample
   /\ "temperature_category" \in DOMAIN sample) =>
    LET row == TableRow(sample.condition)
        temp == TableTempMoods(sample.temperature_category)
        keep == {i \in DOMAIN temp :
                   /\ ~InList(temp[i], row.secondary_moods)
                   /\ temp[i] # row.primary_mood
                   /\ \A j \in 1..(i - 1) : temp[j] # temp[i]}
    IN  /\ moods.primary = row.primary_mood
        /\ moods.secondary = row.secondary_moods \o Kept(temp, keep, 1)

\* A condition the table does not map, at a category whose list holds a mood
\* that is added and one that is left out.
C23_Witness ==
  /\ moods # None
  /\ "condition" \in DOMAIN sample
  /\ "temperature_category" \in DOMAIN sample
  /\ sample.condition \notin DOMAIN WEATHER_MOOD_MAP
  /\ LET row == TableRow(sample.condition)
         temp == TableTempMoods(sample.temperature_category)
     IN  /\ Len(moods.secondary) > Len(row.secondary_moods)
         /\ Len(moods.secondary) < Len(row.secondary_moods) + Len(temp)

(***************************************************************************)
(* SpecExhaust: generate_prompts asked for more prompts than the templates *)
(* of a sample's moods can give                                            *)
(***************************************************************************)
\* Samples whose moods have few templates: snowy at cold (the primary mood
\* only), cloudy at cold (the primary and one secondary mood), foggy at cold
\* (no template for the primary mood, one secondary mood with templates).
ExhaustSamples ==
  {[condition |-> c, temperature_category |-> "cold"] :
     c \in {"snowy", "cloudy", "foggy"}}

\* generate_prompts is asked for MinExhaust..MaxExhaust prompts.
MinExhaust == 6

MaxExhaust == 7

InitExhaust ==
  /\ gen_args \in [weather_data : ExhaustSamples,
                   num_prompts : MinExhaust..MaxExhaust]
  /\ pc = "start"
  /\ primary_mood = Unset
  /\ all_moods = <<>>
  /\ mood_idx = 0
  /\ prompts = <<>>
  /\ used_templates = {}
  /\ IdleWeather /\ IdleCondition /\ IdleMoods /\ IdleJournal /\ IdlePage

SpecExhaust == InitExhaust /\ [][NextPrompts]_vars

\* The prompts of the returned list that carry the mood.
PromptsOf(mood) == {i \in DOMAIN prompts : prompts[i].mood = mood}

\* C24: when generate_prompts returns fewer prompts than requested, the
\* templates are exhausted: the primary mood has no unused template left (it
\* is absent from the template table, or the result holds every one of its
\* templates), and every other mood of the priority list that has templates
\* contributed exactly one prompt.
C24_FewerOnlyWhenTemplatesExhausted ==
  (pc = "done" /\ Len(prompts) < gen_args.num_prompts) =>
    LET m == determine_moods(gen_args.weather_data)
    IN  /\ \/ m.primary \notin DOMAIN PROMPT_TEMPLATES
           \/ \A k \in DOMAIN PROMPT_TEMPLATES[m.primary] :
                \E i \in PromptsOf(m.primary) :
                  prompts[i].text =
                    PromptText(PROMPT_TEMPLATES[m.primary][k], GenCondition)
        /\ \A j \in DOMAIN m.secondary :
             m.secondary[j] \in DOMAIN PROMPT_TEMPLATES =>
               Cardinality(PromptsOf(m.secondary[j])) = 1

\* Fewer prompts than requested, with every template of the primary mood and
\* one of a secondary mood.
C24_Witness ==
  /\ pc = "done"
  /\ Len(prompts) < gen_args.num_prompts
  /\ primary_mood \in DOMAIN PROMPT_TEMPLATES
  /\ Cardinality(PromptsOf(primary_mood)) = Len(PROMPT_TEMPLATES[primary_mood])
  /\ Len(prompts) > Cardinality(PromptsOf(primary_mood))

\* C28: for every classified weather sample, of the 8 conditions and the 7
\* temperature categories, and every count >= 1, generate_prompts returns at
\* least one prompt with is_primary true.
C28_SomePromptIsPrimary ==
  (/\ pc = "done"
   /\ gen_args.num_prompts >= 1
   /\ "condition" \in DOMAIN gen_args.weather_data
   /\ "temperature_category" \in DOMAIN gen_args.weather_data
   /\ gen_args.weather_data.condition \in Conditions
   /\ gen_args.weather_data.temperature_category \in TempCategories) =>
    \E i \in DOMAIN prompts : prompts[i].is_primary

\* For every condition but foggy, some returned prompt is primary.
C28_SomePromptIsPrimaryUnlessFoggy ==
  (/\ pc = "done"
   /\ gen_args.num_prompts >= 1
   /\ GenCondition # "foggy") =>
    \E i \in DOMAIN prompts : prompts[i].is_primary

\* For foggy no returned prompt is primary.
C28_NoPrimaryPromptForFoggy ==
  (pc = "done" /\ GenCondition = "foggy") =>
    \A i \in DOMAIN prompts : ~prompts[i].is_primary

\* The list the step-by-step call returns is one of those that
\* generate_prompts, taken as one call, can return.
StepsAgreeWithCall ==
  pc = "done" =>
    prompts \in generate_prompts(gen_args.weather_data, gen_args.num_prompts)
=============================================================================
